---------------------------- MODULE Spec2Model ----------------------------
(***************************************************************************)
(* Credential / token core of the course-platform backend                  *)
(* (src/src/app/core/security.py): the PBKDF2 password hasher and the      *)
(* itsdangerous-signed access token.                                       *)
(*                                                                         *)
(* Python str and bytes values are sequences: a str is a sequence of       *)
(* one-character strings, a bytes value a sequence of numbers 0..255.      *)
(* The two library digests (hashlib.pbkdf2_hmac, the HMAC-SHA1 of          *)
(* itsdangerous) are idealised as collision-free functions of their        *)
(* inputs, and os.urandom as a source of values that never repeat;         *)
(* everything around them (record formatting and parsing, hex, base64,     *)
(* JSON, the signature split, the expiry comparison, the exception         *)
(* handling, the user lookups) is modelled as coded.                       *)
(***************************************************************************)
EXTENDS Integers, Sequences, FiniteSets, TLC

VARIABLES
    stored,       \* the credential record held in the store (User.password)
    storedBy,     \* ghost: how `stored` came to be (a hash call, or raw data)
    hcall,        \* the last hasher call and what it returned
    hlog,         \* ghost: the get_password_hash calls that returned, in order
    now,          \* int(time.time())
    secret_key,   \* settings.secret_key
    held,         \* ghost: the last create_access_token call and its token
    presented,    \* the string a client presents as its Bearer token
    ret,          \* the last decode_token call and what it returned
    rejected,     \* ghost: whether, and when first, `presented` was decoded as
                  \* invalid since it was set and since the secret last changed
    users,        \* the user table: the row of every id followed
    auth,         \* the last request to the auth layer and its outcome
    calls         \* the call each worker thread is in, with its local variables

vars == <<stored, storedBy, hcall, hlog, now, secret_key, held, presented, ret, rejected,
          users, auth, calls>>
hvars == <<stored, storedBy, hcall, hlog>>
tvars == <<now, secret_key, held, presented, ret, rejected>>
avars == <<users, auth>>

---------------------------------------------------------------------------
(* Characters, str and bytes *)

\* The printable ASCII characters, code 32 (space) first (code 96, the grave
\* accent, is written as an escape: no text of the model holds it).
Ascii ==
    <<" ", "!", "\"", "#", "$", "%", "&", "'", "(", ")", "*", "+", ",", "-", ".", "/",
      "0", "1", "2", "3", "4", "5", "6", "7", "8", "9", ":", ";", "<", "=", ">", "?",
      "@", "A", "B", "C", "D", "E", "F", "G", "H", "I", "J", "K", "L", "M", "N", "O",
      "P", "Q", "R", "S", "T", "U", "V", "W", "X", "Y", "Z", "[", "\\", "]", "^", "_",
      "\\x60", "a", "b", "c", "d", "e", "f", "g", "h", "i", "j", "k", "l", "m", "n", "o",
      "p", "q", "r", "s", "t", "u", "v", "w", "x", "y", "z", "{", "|", "}", "~">>

Range(s) == {s[i] : i \in 1..Len(s)}

\* ord(c) of a printable ASCII character
Ord == [c \in Range(Ascii) |-> 31 + (CHOOSE i \in 1..Len(Ascii) : Ascii[i] = c)]

\* str.encode("utf-8") on ASCII text
EncodeUtf8(s) == [i \in 1..Len(s) |-> Ord[s[i]]]

\* s[i:] and s[:n]
Drop(s, n) == SubSeq(s, n + 1, Len(s))
Take(s, n) == SubSeq(s, 1, n)

\* str.startswith
StartsWith(s, prefix) ==
    /\ Len(s) >= Len(prefix)
    /\ Take(s, Len(prefix)) = prefix

\* s.find(c): the first index of c, 0 when absent
Find(s, c) ==
    IF \E i \in 1..Len(s) : s[i] = c
    THEN CHOOSE i \in 1..Len(s) : s[i] = c /\ \A j \in 1..(i - 1) : s[j] # c
    ELSE 0

\* s.rfind(c): the last index of c, 0 when absent
RFind(s, c) ==
    IF \E i \in 1..Len(s) : s[i] = c
    THEN CHOOSE i \in 1..Len(s) : s[i] = c /\ \A j \in (i + 1)..Len(s) : s[j] # c
    ELSE 0

\* str.split(sep, maxsplit) for a one-character separator
RECURSIVE Split(_, _, _)
Split(s, sep, maxsplit) ==
    LET i == Find(s, sep) IN
    IF maxsplit = 0 \/ i = 0
    THEN <<s>>
    ELSE <<Take(s, i - 1)>> \o Split(Drop(s, i), sep, maxsplit - 1)

\* sep.join(parts)
RECURSIVE Join(_, _)
Join(parts, sep) ==
    IF Len(parts) = 0 THEN <<>>
    ELSE IF Len(parts) = 1 THEN parts[1]
    ELSE parts[1] \o <<sep>> \o Join(Tail(parts), sep)

Digits == <<"0", "1", "2", "3", "4", "5", "6", "7", "8", "9">>
DigitChars == Range(Digits)
DigitValues == [c \in DigitChars |-> (CHOOSE i \in 1..10 : Digits[i] = c) - 1]
DigitVal(c) == DigitValues[c]
IsDigit(c) == c \in DigitChars

\* str(n) / "{}".format(n) of an int
RECURSIVE NatToStr(_)
NatToStr(n) ==
    IF n < 10 THEN <<Digits[n + 1]>>
    ELSE NatToStr(n \div 10) \o <<Digits[(n % 10) + 1]>>

IntToStr(n) == IF n < 0 THEN <<"-">> \o NatToStr(-n) ELSE NatToStr(n)

RECURSIVE DigitsToNat(_)
DigitsToNat(s) ==
    IF Len(s) = 0 THEN 0
    ELSE 10 * DigitsToNat(Take(s, Len(s) - 1)) + DigitVal(s[Len(s)])

\* str.strip() of spaces
RECURSIVE Strip(_)
Strip(s) ==
    IF Len(s) > 0 /\ s[1] = " " THEN Strip(Tail(s))
    ELSE IF Len(s) > 0 /\ s[Len(s)] = " " THEN Strip(Take(s, Len(s) - 1))
    ELSE s

\* int(s): surrounding blanks, an optional sign, then decimal digits;
\* anything else is a ValueError (ok = FALSE).
ParseInt(s) ==
    LET t == Strip(s)
        signed == Len(t) > 0 /\ t[1] \in {"+", "-"}
        body == IF signed THEN Tail(t) ELSE t
    IN IF Len(body) = 0 \/ \E i \in 1..Len(body) : ~IsDigit(body[i])
       THEN [ok |-> FALSE, value |-> 0]
       ELSE [ok |-> TRUE,
             value |-> IF signed /\ t[1] = "-" THEN -DigitsToNat(body)
                       ELSE DigitsToNat(body)]

HexDigits == <<"0", "1", "2", "3", "4", "5", "6", "7", "8", "9",
               "a", "b", "c", "d", "e", "f">>
UpperHex == <<"0", "1", "2", "3", "4", "5", "6", "7", "8", "9",
              "A", "B", "C", "D", "E", "F">>

\* bytes.hex(): two lower-case digits per byte
RECURSIVE Hex(_)
Hex(bytes) ==
    IF Len(bytes) = 0 THEN <<>>
    ELSE <<HexDigits[(bytes[1] \div 16) + 1], HexDigits[(bytes[1] % 16) + 1]>>
         \o Hex(Tail(bytes))

HexChars == Range(HexDigits) \cup Range(UpperHex)
HexValues ==
    [c \in HexChars |->
        IF c \in Range(HexDigits) THEN (CHOOSE i \in 1..16 : HexDigits[i] = c) - 1
        ELSE (CHOOSE i \in 1..16 : UpperHex[i] = c) - 1]
IsHexDigit(c) == c \in HexChars
HexVal(c) == HexValues[c]

\* bytes.fromhex(s): pairs of hex digits of either case, blanks between the
\* pairs skipped; ok = FALSE stands for its ValueError.
RECURSIVE FromHex(_)
FromHex(s) ==
    IF Len(s) = 0 THEN [ok |-> TRUE, bytes |-> <<>>]
    ELSE IF s[1] = " " THEN FromHex(Tail(s))
    ELSE IF Len(s) < 2 \/ ~IsHexDigit(s[1]) \/ ~IsHexDigit(s[2])
         THEN [ok |-> FALSE, bytes |-> <<>>]
    ELSE LET rest == FromHex(Drop(s, 2)) IN
         IF ~rest.ok THEN rest
         ELSE [ok |-> TRUE,
               bytes |-> <<16 * HexVal(s[1]) + HexVal(s[2])>> \o rest.bytes]

\* n as `width` big-endian bytes
RECURSIVE BigEndian(_, _)
BigEndian(n, width) ==
    IF width = 0 THEN <<>>
    ELSE BigEndian(n \div 256, width - 1) \o <<n % 256>>

\* bytes padded with zero bytes to `width`
PadTo(bytes, width) == bytes \o [i \in 1..(width - Len(bytes)) |-> 0]

---------------------------------------------------------------------------
(* Password hashing and verification *)

HASH_NAME == <<"s", "h", "a", "2", "5", "6">>
PBKDF2_ITERATIONS == 100000
SALT_SIZE == 16

\* Model bounds of the hasher's inputs
MaxPasswordLen == 10      \* longest password the digest model tells apart
NumSalts == 3             \* how many values os.urandom is seen to return

Dollar == "$"
PBKDF2_PREFIX == <<"p", "b", "k", "d", "f", "2", "_">>

\* Outcome of a call: exc names the exception that escaped ("none": it returned).
Returned(v) == [exc |-> "none", value |-> v]
Raised(e) == [exc |-> e, value |-> FALSE]

\* hashlib.pbkdf2_hmac("sha256", password, salt, iterations): raises ValueError
\* unless iterations > 0.  The derived key is idealised as a
\* collision-free function of (password, salt, iterations): it lays out the
\* iteration count (4 bytes), the salt (length byte, 16 bytes) and the
\* password (length byte, MaxPasswordLen bytes).
Pbkdf2Hmac(password, salt, iterations) ==
    IF iterations < 1 THEN Raised("ValueError")
    ELSE Returned(BigEndian(iterations, 4)
                  \o <<Len(salt)>> \o PadTo(salt, SALT_SIZE)
                  \o <<Len(password)>> \o PadTo(password, MaxPasswordLen))

FormatRecordKeyUnseparated(algo, it, salt, dk) ==
    PBKDF2_PREFIX \o algo \o <<Dollar>> \o IntToStr(it) \o <<Dollar>>
    \o Hex(salt) \o Hex(dk)

\* "pbkdf2_{algo}${it}${salt}${dk}".format(...)
FormatRecord(algo, it, salt, dk) ==
    PBKDF2_PREFIX \o algo \o <<Dollar>> \o IntToStr(it) \o <<Dollar>>
    \o Hex(salt) \o <<Dollar>> \o Hex(dk)

\* get_password_hash(password), with `salt` the value os.urandom(SALT_SIZE) gave
GetPasswordHashDropsSalt(password, salt) ==
    IF Len(password) = 0 THEN Raised("ValueError")
    ELSE LET dk == Pbkdf2Hmac(EncodeUtf8(password), salt, PBKDF2_ITERATIONS).value
         IN Returned(FormatRecord(HASH_NAME, PBKDF2_ITERATIONS, <<>>, dk))

GetPasswordHashFixedSalt(password, salt) ==
    IF Len(password) = 0 THEN Raised("ValueError")
    ELSE LET zeros == PadTo(<<>>, SALT_SIZE)
             dk == Pbkdf2Hmac(EncodeUtf8(password), zeros, PBKDF2_ITERATIONS).value
         IN Returned(FormatRecord(HASH_NAME, PBKDF2_ITERATIONS, zeros, dk))

GetPasswordHashAcceptsEmpty(password, salt) ==
    LET dk == Pbkdf2Hmac(EncodeUtf8(password), salt, PBKDF2_ITERATIONS).value
    IN Returned(FormatRecord(HASH_NAME, PBKDF2_ITERATIONS, salt, dk))

get_password_hash(password, salt) ==
    IF Len(password) = 0 THEN Raised("ValueError")
    ELSE LET dk == Pbkdf2Hmac(EncodeUtf8(password), salt, PBKDF2_ITERATIONS).value
         IN Returned(FormatRecord(HASH_NAME, PBKDF2_ITERATIONS, salt, dk))

\* The try block of verify_password: the parse of the stored record.
\* ok = FALSE: the block returned False (bad prefix) or an exception was caught.
ParseRecord(hashed_password) ==
    LET parts == Split(hashed_password, Dollar, 3)
        bad == [ok |-> FALSE, iterations |-> 0, salt |-> <<>>, expected |-> <<>>]
    IN IF Len(parts) # 4 THEN bad
       ELSE IF ~StartsWith(parts[1], PBKDF2_PREFIX) THEN bad
       ELSE LET it == ParseInt(parts[2])
                salt == FromHex(parts[3])
                expected == FromHex(parts[4])
            IN IF ~it.ok \/ ~salt.ok \/ ~expected.ok THEN bad
               ELSE [ok |-> TRUE, iterations |-> it.value,
                     salt |-> salt.bytes, expected |-> expected.bytes]

\* hmac.compare_digest(a, b)
CompareDigest(a, b) == a = b

VerifyPasswordIgnoresKey(plain_password, hashed_password) ==
    Returned(ParseRecord(hashed_password).ok)

VerifyPasswordConfiguredIterations(plain_password, hashed_password) ==
    LET rec == ParseRecord(hashed_password) IN
    IF ~rec.ok THEN Returned(FALSE)
    ELSE LET new_dk == Pbkdf2Hmac(EncodeUtf8(plain_password), rec.salt, PBKDF2_ITERATIONS)
         IN IF new_dk.exc # "none" THEN new_dk
            ELSE Returned(CompareDigest(new_dk.value, rec.expected))

\* verify_password(plain_password, hashed_password): the digest is computed
\* outside the try block, so what pbkdf2_hmac raises escapes.
verify_password(plain_password, hashed_password) ==
    LET rec == ParseRecord(hashed_password) IN
    IF ~rec.ok THEN Returned(FALSE)
    ELSE LET new_dk == Pbkdf2Hmac(EncodeUtf8(plain_password), rec.salt, rec.iterations)
         IN IF new_dk.exc # "none" THEN new_dk
            ELSE Returned(CompareDigest(new_dk.value, rec.expected))

---------------------------------------------------------------------------
(* The hasher's inputs and calls *)

Passwords == {<<>>, <<"p", "w">>, <<"p", "W">>, <<"$", "1">>}

\* What os.urandom(SALT_SIZE) returns: NumSalts distinct 16-byte values
Salts == {BigEndian(4099 * n, SALT_SIZE) : n \in 1..NumSalts}

Str_pw == <<"p", "w">>
Salt1 == BigEndian(4099, SALT_SIZE)

\* The fields of the record get_password_hash gives for "pw"
GoodFields == Split(get_password_hash(Str_pw, Salt1).value, Dollar, 3)

\* A record for "pw" derived with another iteration count
RecordWithIterations(it_str, n) ==
    <<GoodFields[1], it_str, GoodFields[3],
      Hex(Pbkdf2Hmac(EncodeUtf8(Str_pw), Salt1, n).value)>>

\* Stored data that get_password_hash did not write, as `$`-separated fields
RawFields ==
    { <<>>,
      << <<"g", "a", "r", "b", "a", "g", "e", "-", "n", "o", "t", "-", "a", "-",
           "r", "e", "c", "o", "r", "d">> >>,
      <<GoodFields[1], GoodFields[2], GoodFields[3]>>,
      <<GoodFields[1], GoodFields[2], GoodFields[3], GoodFields[4], <<"0", "0">> >>,
      << <<"m", "d", "5">>, GoodFields[2], GoodFields[3], GoodFields[4]>>,
      << PBKDF2_PREFIX \o <<"m", "d", "5">>, GoodFields[2], GoodFields[3], GoodFields[4]>>,
      <<GoodFields[1], <<"1", "e", "5">>, GoodFields[3], GoodFields[4]>>,
      <<GoodFields[1], <<>>, GoodFields[3], GoodFields[4]>>,
      <<GoodFields[1], <<"0">>, GoodFields[3], GoodFields[4]>>,
      <<GoodFields[1], <<"-", "1">>, GoodFields[3], GoodFields[4]>>,
      <<GoodFields[1], GoodFields[2], <<"z", "z">>, GoodFields[4]>>,
      <<GoodFields[1], GoodFields[2], GoodFields[3], <<"z", "z">> >>,
      <<GoodFields[1], GoodFields[2], GoodFields[3], Take(GoodFields[4], 63)>>,
      <<GoodFields[1], GoodFields[2], GoodFields[3], Take(GoodFields[4], 62)>>,
      <<GoodFields[1], GoodFields[2], <<>>, <<>> >>,
      RecordWithIterations(<<"1", "0", "0", "0">>, 1000),
      RecordWithIterations(<<" ", "+", "7">>, 7) }

\* Iteration counts other than the configured one that records were
\* produced with (an earlier or a later setting of the constant)
OtherIterations == {1, 1000, PBKDF2_ITERATIONS - 1, PBKDF2_ITERATIONS + 1}

\* The records for "pw" produced with those iteration counts
OtherIterationRecords ==
    {Join(RecordWithIterations(IntToStr(n), n), Dollar) : n \in OtherIterations}

RawRecords == {Join(f, Dollar) : f \in RawFields} \cup OtherIterationRecords

\* A well-formed credential record:
\* pbkdf2_sha256$<iterations:decimal>$<salt:hex>$<derived_key:hex>
IsHexText(s) == Len(s) % 2 = 0 /\ \A i \in 1..Len(s) : IsHexDigit(s[i])
WellFormed(record) ==
    LET f == Split(record, Dollar, 4) IN
    /\ Len(f) = 4
    /\ f[1] = PBKDF2_PREFIX \o HASH_NAME
    /\ Len(f[2]) > 0 /\ \A i \in 1..Len(f[2]) : IsDigit(f[2][i])
    /\ IsHexText(f[3])
    /\ IsHexText(f[4])

\* get_password_hash over the inputs of the model, computed once
PasswordHashes ==
    [password \in Passwords, salt \in Salts |-> get_password_hash(password, salt)]

\* The records the store can hold: the raw ones and those the hasher returns
StoredRecords ==
    RawRecords \cup
    {PasswordHashes[x[1], x[2]].value :
        x \in {y \in Passwords \X Salts : PasswordHashes[y[1], y[2]].exc = "none"}}

\* verify_password over the inputs of the model, computed once
PasswordVerdicts ==
    [plain_password \in Passwords, record \in StoredRecords |->
        verify_password(plain_password, record)]

NoCall == [op |-> "none", password |-> <<>>, record |-> <<>>,
           exc |-> "none", value |-> FALSE]

InitHasher ==
    /\ stored = get_password_hash(Str_pw, Salt1).value
    /\ storedBy = [kind |-> "hash", password |-> Str_pw, salt |-> Salt1]
    /\ hcall = NoCall
    /\ hlog = << [password |-> Str_pw, salt |-> Salt1, record |-> stored] >>

\* A registration or password change: get_password_hash(password) with the
\* salt os.urandom returned; the record it returns is written to the store.
\* os.urandom is idealised as a source of fresh values: it never returns a
\* 16-byte value it returned before.
GetPasswordHash(password, salt) ==
    LET r == PasswordHashes[password, salt] IN
    /\ r.exc = "none" => \A i \in 1..Len(hlog) : hlog[i].salt # salt
    /\ hcall' = [op |-> "hash", password |-> password,
                 record |-> IF r.exc = "none" THEN r.value ELSE <<>>,
                 exc |-> r.exc, value |-> FALSE]
    /\ IF r.exc = "none"
       THEN /\ stored' = r.value
            /\ storedBy' = [kind |-> "hash", password |-> password, salt |-> salt]
            /\ hlog' = Append(hlog, [password |-> password, salt |-> salt,
                                      record |-> r.value])
       ELSE UNCHANGED <<stored, storedBy, hlog>>
    /\ UNCHANGED <<tvars, avars, calls>>

\* The store comes to hold data the hasher did not write (a migrated,
\* truncated or hand-edited row).
StoreRaw(record) ==
    /\ stored' = record
    /\ storedBy' = [kind |-> "raw", password |-> <<>>, salt |-> <<>>]
    /\ hcall' = NoCall
    /\ UNCHANGED hlog
    /\ UNCHANGED <<tvars, avars, calls>>

\* A login attempt: verify_password(plain_password, user.password)
VerifyPassword(plain_password) ==
    LET r == PasswordVerdicts[plain_password, stored] IN
    /\ hcall' = [op |-> "verify", password |-> plain_password, record |-> stored,
                 exc |-> r.exc, value |-> r.value]
    /\ UNCHANGED <<stored, storedBy, hlog>>
    /\ UNCHANGED <<tvars, avars, calls>>

---------------------------------------------------------------------------
(* The signed serializer (itsdangerous.Serializer with its defaults: the   *)
(* json module, Signer with HMAC-SHA1, separator ".", salt "itsdangerous") *)

DIGEST_SIZE == 20          \* hashlib.sha1().digest_size

B64Alphabet ==
    <<"A", "B", "C", "D", "E", "F", "G", "H", "I", "J", "K", "L", "M", "N", "O", "P",
      "Q", "R", "S", "T", "U", "V", "W", "X", "Y", "Z", "a", "b", "c", "d", "e", "f",
      "g", "h", "i", "j", "k", "l", "m", "n", "o", "p", "q", "r", "s", "t", "u", "v",
      "w", "x", "y", "z", "0", "1", "2", "3", "4", "5", "6", "7", "8", "9", "-", "_">>

\* base64_encode(bytes): urlsafe_b64encode(bytes).rstrip(b"=")
RECURSIVE base64_encode(_)
base64_encode(bytes) ==
    LET n == Len(bytes)
        b1 == bytes[1]
        b2 == bytes[2]
        b3 == bytes[3]
    IN IF n = 0 THEN <<>>
       ELSE IF n = 1
            THEN <<B64Alphabet[(b1 \div 4) + 1], B64Alphabet[((b1 % 4) * 16) + 1]>>
       ELSE IF n = 2
            THEN <<B64Alphabet[(b1 \div 4) + 1],
                   B64Alphabet[((b1 % 4) * 16 + (b2 \div 16)) + 1],
                   B64Alphabet[((b2 % 16) * 4) + 1]>>
       ELSE <<B64Alphabet[(b1 \div 4) + 1],
              B64Alphabet[((b1 % 4) * 16 + (b2 \div 16)) + 1],
              B64Alphabet[((b2 % 16) * 4 + (b3 \div 64)) + 1],
              B64Alphabet[(b3 % 64) + 1]>> \o base64_encode(Drop(bytes, 3))

\* The 6-bit value of a character for urlsafe_b64decode, 64 for a character
\* outside the alphabet.  urlsafe_b64decode translates "-" and "_" to "+"
\* and "/" and then decodes the standard alphabet, so "+" and "/" decode too.
B64Chars == Range(B64Alphabet)
B64Values == [c \in B64Chars |-> (CHOOSE i \in 1..64 : B64Alphabet[i] = c) - 1]
B64Value(c) ==
    IF c \in B64Chars THEN B64Values[c]
    ELSE IF c = "+" THEN 62
    ELSE IF c = "/" THEN 63
    ELSE 64

\* binascii.a2b_base64(s) in its default, non-strict mode: characters outside
\* the alphabet are skipped, the bits left over in the last character are
\* dropped, and decoding stops at a complete run of "=".
RECURSIVE A2bBase64(_, _, _, _, _, _)
A2bBase64(s, i, quad_pos, pad_count, leftchar, out) ==
    IF i > Len(s)
    THEN [ok |-> quad_pos = 0, bytes |-> out]
    ELSE IF s[i] = "="
    THEN IF quad_pos >= 2 /\ quad_pos + pad_count + 1 >= 4
         THEN [ok |-> TRUE, bytes |-> out]
         ELSE A2bBase64(s, i + 1, quad_pos,
                        IF quad_pos >= 2 THEN pad_count + 1 ELSE pad_count,
                        leftchar, out)
    ELSE LET v == B64Value(s[i]) IN
         IF v >= 64 THEN A2bBase64(s, i + 1, quad_pos, pad_count, leftchar, out)
         ELSE IF quad_pos = 0 THEN A2bBase64(s, i + 1, 1, 0, v, out)
         ELSE IF quad_pos = 1
              THEN A2bBase64(s, i + 1, 2, 0, v % 16,
                             Append(out, leftchar * 4 + (v \div 16)))
         ELSE IF quad_pos = 2
              THEN A2bBase64(s, i + 1, 3, 0, v % 4,
                             Append(out, leftchar * 16 + (v \div 4)))
         ELSE A2bBase64(s, i + 1, 0, 0, 0, Append(out, leftchar * 64 + v))

\* base64_decode(string): pad with "=" to a multiple of four, then
\* urlsafe_b64decode; ok = FALSE stands for its BadData.
base64_decode(string) ==
    A2bBase64(string \o [i \in 1..((4 - (Len(string) % 4)) % 4) |-> "="],
              1, 0, 0, 0, <<>>)

Str_itsdangerous == <<"i", "t", "s", "d", "a", "n", "g", "e", "r", "o", "u", "s">>
Str_signer == <<"s", "i", "g", "n", "e", "r">>
Sep == "."

\* Signer.derive_key (django-concat): sha1(salt + b"signer" + secret_key);
\* the digest is idealised as collision-free and stands as its input.
derive_key(secret) == EncodeUtf8(Str_itsdangerous \o Str_signer \o secret)

\* One byte of the digest model: a weighted sum of every DIGEST_SIZE-th byte
RECURSIVE Lane(_, _, _)
Lane(bytes, j, weight) ==
    IF j > Len(bytes) THEN 0
    ELSE weight * bytes[j] + Lane(bytes, j + DIGEST_SIZE, weight + 2)

\* HMACAlgorithm.get_signature(key, value): hmac.new(key, value, sha1).digest().
\* The 20-byte digest is idealised: each byte sums, with odd weights, the
\* key and message bytes of its lane, so two messages that differ in one
\* byte, and the keys of two secrets of the model, never share a digest.
get_signature(key, value) ==
    [i \in 1..DIGEST_SIZE |-> (Lane(key, i, 1) + Lane(value, i, 3)) % 256]

\* Signer.sign(value): value + sep + base64_encode(signature)
Sign(secret, value) ==
    value \o <<Sep>> \o base64_encode(get_signature(derive_key(secret), EncodeUtf8(value)))

\* Signer.verify_signature(value, sig): the signature is base64-decoded and
\* the decoded bytes are compared; a signature that does not decode is False.
verify_signature(secret, value, sig) ==
    LET decoded == base64_decode(sig) IN
    /\ decoded.ok
    /\ CompareDigest(decoded.bytes, get_signature(derive_key(secret), EncodeUtf8(value)))

---------------------------------------------------------------------------
(* The token payload and its JSON text *)

ACCESS_TOKEN_EXPIRES_MINUTES == 60     \* settings.access_token_expires_minutes

Quote == "\""
Json_user_id == <<"{", Quote, "u", "s", "e", "r", "_", "i", "d", Quote, ":", " ">>
Json_role == <<",", " ", Quote, "r", "o", "l", "e", Quote, ":", " ", Quote>>
Json_iat == <<Quote, ",", " ", Quote, "i", "a", "t", Quote, ":", " ">>
Json_exp == <<",", " ", Quote, "e", "x", "p", Quote, ":", " ">>
Json_end == <<"}">>

NoPayload == [user_id |-> 0, role |-> <<>>, iat |-> 0, exp |-> 0]

\* json.dumps(payload) of {"user_id": .., "role": .., "iat": .., "exp": ..}
\* (roles of the model hold no character JSON escapes)
JsonDumps(payload) ==
    Json_user_id \o IntToStr(payload.user_id)
    \o Json_role \o payload.role
    \o Json_iat \o IntToStr(payload.iat)
    \o Json_exp \o IntToStr(payload.exp)
    \o Json_end

\* A JSON integer at the head of s: an optional "-", then "0" or digits
\* that do not start with "0".  len = 0: there is none.
JsonInt(s) ==
    LET neg == Len(s) > 0 /\ s[1] = "-"
        t == IF neg THEN Tail(s) ELSE s
        n == IF \E k \in 1..Len(t) : ~IsDigit(t[k])
             THEN (CHOOSE k \in 1..Len(t) :
                      ~IsDigit(t[k]) /\ \A m \in 1..(k - 1) : IsDigit(t[m])) - 1
             ELSE Len(t)
    IN IF n = 0 \/ (n > 1 /\ t[1] = "0")
       THEN [len |-> 0, value |-> 0]
       ELSE [len |-> n + (IF neg THEN 1 ELSE 0),
             value |-> IF neg THEN -DigitsToNat(Take(t, n)) ELSE DigitsToNat(Take(t, n))]

\* What json.loads gives.  shape: "mapping" (dict), "sequence" (list),
\* "number" (int) or "null" (None).  For a mapping, payload holds the four
\* keys the code reads (0 and "" for a key that is absent) and exp says what
\* payload.get("exp") is: "int", "none" (absent or null), "str" (its text is
\* exp_text) or "list".  ok = FALSE stands for JSONDecodeError.
JsonError ==
    [ok |-> FALSE, payload |-> NoPayload, shape |-> "null", exp |-> "none",
     exp_text |-> <<>>]
JsonValue(shape) == [JsonError EXCEPT !.ok = TRUE, !.shape = shape]
JsonMapping(payload, exp, exp_text) ==
    [ok |-> TRUE, payload |-> payload, shape |-> "mapping", exp |-> exp,
     exp_text |-> exp_text]

Json_null == <<"n", "u", "l", "l">>
Json_empty_list == <<"[", "]">>
Json_empty_dict == <<"{", "}">>
Json_only_exp == <<"{", Quote, "e", "x", "p", Quote, ":", " ">>

\* A JSON string without escapes that is the whole of s
IsJsonString(s) ==
    /\ Len(s) >= 2
    /\ s[1] = Quote /\ s[Len(s)] = Quote
    /\ \A i \in 2..(Len(s) - 1) : s[i] # Quote /\ s[i] # "\\"

\* json.loads on {"exp": v}, given the text v
JsonLoadsExp(v) ==
    IF v = Json_null THEN JsonMapping(NoPayload, "none", <<>>)
    ELSE IF v = Json_empty_list THEN JsonMapping(NoPayload, "list", <<>>)
    ELSE IF Len(v) > 0 /\ JsonInt(v).len = Len(v)
         THEN JsonMapping([NoPayload EXCEPT !.exp = JsonInt(v).value], "int", <<>>)
    ELSE IF IsJsonString(v)
         THEN JsonMapping(NoPayload, "str", Take(Drop(v, 1), Len(v) - 2))
    ELSE JsonError

\* json.loads on the JSON texts that are not the payload of a token:
\* null, [], an integer, {} and {"exp": v}
JsonLoadsOther(text) ==
    IF text = Json_null THEN JsonValue("null")
    ELSE IF text = Json_empty_list THEN JsonValue("sequence")
    ELSE IF Len(text) > 0 /\ JsonInt(text).len = Len(text) THEN JsonValue("number")
    ELSE IF text = Json_empty_dict THEN JsonMapping(NoPayload, "none", <<>>)
    ELSE IF StartsWith(text, Json_only_exp) /\ text[Len(text)] = "}"
         THEN JsonLoadsExp(Take(Drop(text, Len(Json_only_exp)),
                                Len(text) - Len(Json_only_exp) - 1))
    ELSE JsonError

\* json.loads(text) on the texts JsonDumps writes: ok = FALSE for any other
\* text
JsonLoadsToken(text) ==
    LET bad == [ok |-> FALSE, payload |-> NoPayload]
        s1 == Drop(text, Len(Json_user_id))
        uid == JsonInt(s1)
        s2 == Drop(s1, uid.len)
        s3 == Drop(s2, Len(Json_role))
        q == Find(s3, Quote)
        role == Take(s3, q - 1)
        s4 == Drop(s3, q - 1)
        s5 == Drop(s4, Len(Json_iat))
        iat == JsonInt(s5)
        s6 == Drop(s5, iat.len)
        s7 == Drop(s6, Len(Json_exp))
        exp == JsonInt(s7)
        s8 == Drop(s7, exp.len)
    IN IF ~StartsWith(text, Json_user_id) \/ uid.len = 0 THEN bad
       ELSE IF ~StartsWith(s2, Json_role) \/ q = 0 THEN bad
       ELSE IF "\\" \in Range(role) THEN bad
       ELSE IF ~StartsWith(s4, Json_iat) \/ iat.len = 0 THEN bad
       ELSE IF ~StartsWith(s6, Json_exp) \/ exp.len = 0 THEN bad
       ELSE IF s8 # Json_end THEN bad
       ELSE [ok |-> TRUE,
             payload |-> [user_id |-> uid.value, role |-> role,
                          iat |-> iat.value, exp |-> exp.value]]

\* json.loads(text) on the texts of the model: the payload of a token as
\* JsonDumps writes it, or one of the other JSON texts
JsonTokenOr(token, text) ==
    IF token.ok THEN JsonMapping(token.payload, "int", <<>>)
    ELSE JsonLoadsOther(text)
JsonLoads(text) == JsonTokenOr(JsonLoadsToken(text), text)

UnsignWithoutVerifying(secret, s) ==
    LET k == RFind(s, Sep) IN
    IF k = 0 THEN [ok |-> FALSE, value |-> <<>>]
    ELSE [ok |-> TRUE, value |-> Take(s, k - 1)]

\* Signer.unsign(s): the text before the last separator when the signature
\* after it verifies; ok = FALSE stands for BadSignature
Unsign(secret, s) ==
    LET k == RFind(s, Sep) IN
    IF k = 0 THEN [ok |-> FALSE, value |-> <<>>]
    ELSE IF ~verify_signature(secret, Take(s, k - 1), Drop(s, k))
         THEN [ok |-> FALSE, value |-> <<>>]
    ELSE [ok |-> TRUE, value |-> Take(s, k - 1)]

\* Serializer.dumps(obj): sign the JSON text of obj
Dumps(secret, payload) == Sign(secret, JsonDumps(payload))

\* What loads gives: the object obj, or the exception exc
Loaded(exc, obj) ==
    [exc |-> exc, payload |-> obj.payload, shape |-> obj.shape, exp |-> obj.exp,
     exp_text |-> obj.exp_text]

\* Serializer.load_payload: any exception of json.loads becomes BadPayload
LoadPayload(obj) ==
    IF ~obj.ok THEN Loaded("BadPayload", JsonError) ELSE Loaded("none", obj)

\* Serializer.loads(s): Signer.unsign, then load_payload.
\* exc: "none", "BadSignature" (no separator, or the signature does not
\* verify) or "BadPayload" (signed text that is not JSON).
Loads(secret, s) ==
    LET k == RFind(s, Sep)
        value == Take(s, k - 1)
        sig == Drop(s, k)
    IN IF k = 0 THEN Loaded("BadSignature", JsonError)
       ELSE IF ~verify_signature(secret, value, sig)
            THEN Loaded("BadSignature", JsonError)
       ELSE LoadPayload(JsonLoads(value))

---------------------------------------------------------------------------
(* create_access_token and decode_token *)

\* expires_delta: Optional[timedelta]; given = FALSE is None.
\* int(expires_delta.total_seconds()) of a whole-second timedelta
DefaultDelta == [given |-> FALSE, seconds |-> 0]
Delta(n) == [given |-> TRUE, seconds |-> n]
ExpSeconds(expires_delta) ==
    IF expires_delta.given THEN expires_delta.seconds
    ELSE ACCESS_TOKEN_EXPIRES_MINUTES * 60

CreateTokenNegatesTtl(secret, time, user_id, role, expires_delta) ==
    Dumps(secret, [user_id |-> user_id, role |-> role, iat |-> time,
                   exp |-> time - ExpSeconds(expires_delta)])

CreateTokenMinutesAsSeconds(secret, time, user_id, role, expires_delta) ==
    Dumps(secret, [user_id |-> user_id, role |-> role, iat |-> time,
                   exp |-> time + (IF expires_delta.given THEN expires_delta.seconds
                                   ELSE ACCESS_TOKEN_EXPIRES_MINUTES)])

\* create_access_token(user_id, role, expires_delta) under settings.secret_key
\* = secret at time.time() = time
create_access_token(secret, time, user_id, role, expires_delta) ==
    Dumps(secret, [user_id |-> user_id, role |-> role, iat |-> time,
                   exp |-> time + ExpSeconds(expires_delta)])

\* What decode_token returns: a payload, or None; exc names the exception
\* that escaped instead ("none": it returned)
None == [some |-> FALSE, payload |-> NoPayload, exc |-> "none"]
Some(payload) == [some |-> TRUE, payload |-> payload, exc |-> "none"]
Escaped(exc) == [some |-> FALSE, payload |-> NoPayload, exc |-> exc]

\* int(exp) of line 176: the exception it raises, "none" when it returns
IntOfExpError(obj) ==
    IF obj.exp = "list" THEN "TypeError"
    ELSE IF obj.exp = "str" /\ ~ParseInt(obj.exp_text).ok THEN "ValueError"
    ELSE "none"

\* int(exp) of line 176 when it returns
IntOfExp(obj) ==
    IF obj.exp = "str" THEN ParseInt(obj.exp_text).value ELSE obj.payload.exp

\* The value decode_token returns for the object obj, once loaded (an exp
\* given as text is shown by its int value)
ReturnedPayload(obj) ==
    Some(IF obj.exp = "str" THEN [obj.payload EXCEPT !.exp = IntOfExp(obj)]
         ELSE obj.payload)

\* decode_token, lines 174-181, on the object obj that s.loads returned:
\* payload.get("exp") is outside every try block, so the AttributeError of
\* an object without .get escapes; what int(exp) raises is swallowed
ExpiryChecked(obj, time) ==
    IF obj.shape # "mapping" THEN Escaped("AttributeError")
    ELSE IF obj.exp = "none" THEN None
    ELSE IF IntOfExpError(obj) # "none" THEN None
    ELSE IF IntOfExp(obj) < time THEN None
    ELSE ReturnedPayload(obj)

\* decode_token, lines 166-172 on: the exceptions of s.loads are swallowed
LoadedChecked(loaded, time) ==
    IF loaded.exc # "none" THEN None ELSE ExpiryChecked(loaded, time)

DecodeTokenStrictExpiry(secret, time, token) ==
    IF Len(token) = 0 THEN None
    ELSE LET loaded == Loads(secret, token) IN
         IF loaded.exc # "none" THEN None
         ELSE IF loaded.payload.exp <= time THEN None
         ELSE Some(loaded.payload)

DecodeTokenNoExpiry(secret, time, token) ==
    IF Len(token) = 0 THEN None
    ELSE LET loaded == Loads(secret, token) IN
         IF loaded.exc # "none" THEN None
         ELSE Some(loaded.payload)

DecodeTokenExpiryReversed(secret, time, token) ==
    IF Len(token) = 0 THEN None
    ELSE LET loaded == Loads(secret, token) IN
         IF loaded.exc # "none" THEN None
         ELSE IF loaded.payload.exp > time THEN None
         ELSE Some(loaded.payload)

\* decode_token(token) under settings.secret_key = secret at time.time() =
\* time: every exception of loads is swallowed into None, and so is an
\* expired payload.
decode_token(secret, time, token) ==
    IF Len(token) = 0 THEN None
    ELSE LoadedChecked(Loads(secret, token), time)

---------------------------------------------------------------------------
(* The token codec's inputs and calls *)

\* Model bounds of the clock
StartTime == 1000         \* int(time.time()) when the process starts
MaxTicks == 2             \* how many times the clock is seen to advance

Str_student == <<"s", "t", "u", "d", "e", "n", "t">>
Str_admin == <<"a", "d", "m", "i", "n">>
Str_change_me == <<"c", "h", "a", "n", "g", "e", "-", "m", "e">>
Str_rotated == <<"r", "o", "t", "a", "t", "e", "d">>

\* Who logs in: (User.id, User.role)
Users == {[user_id |-> 42, role |-> Str_student], [user_id |-> 7, role |-> Str_admin]}

\* The expires_delta arguments: None (the configured default), -1 s, 0 s, 1 s
Deltas == {DefaultDelta, Delta(-1), Delta(0), Delta(1)}

\* The values SECRET_KEY takes: the default of config.py and a rotated one
Secrets == {Str_change_me, Str_rotated}

\* The clock advances by a second or by the default token lifetime
ClockSteps == {1, ACCESS_TOKEN_EXPIRES_MINUTES * 60}
NumTicks(time) ==
    ((time - StartTime) \div (ACCESS_TOKEN_EXPIRES_MINUTES * 60))
    + ((time - StartTime) % (ACCESS_TOKEN_EXPIRES_MINUTES * 60))

\* The values the clock takes
Times ==
    {StartTime + a + b * (ACCESS_TOKEN_EXPIRES_MINUTES * 60) :
        <<a, b>> \in {t \in (0..MaxTicks) \X (0..MaxTicks) : t[1] + t[2] <= MaxTicks}}

\* create_access_token over the inputs of the model, computed once
IssuedToken ==
    [secret \in Secrets, time \in Times,
     user \in [user_id : {u.user_id : u \in Users}, role : {u.role : u \in Users}],
     delta \in Deltas |->
        create_access_token(secret, time, user.user_id, user.role, delta)]

\* Strings no create_access_token call returned
Garbage ==
    { <<>>,
      <<"n", "o", "t", "-", "a", "-", "t", "o", "k", "e", "n">>,
      <<"{", "}", ".", "A", "A", "A", "A">> }

\* The characters a client puts in the place of character c of a token: for
\* a base64 character its successor in the alphabet and the one half an
\* alphabet away; and, for every character, "!", "=" and "+".
OtherChars(c) ==
    LET v == B64Value(c) IN
    ((IF c \in B64Chars
      THEN {B64Alphabet[((v + 1) % 64) + 1], B64Alphabet[((v + 32) % 64) + 1]}
      ELSE {})
     \cup {"!", "=", "+"}) \ {c}

\* No request made to the auth layer since the state last changed
NoAuth == [op |-> "none", username |-> <<>>, password |-> <<>>,
           email |-> <<>>, phone |-> <<>>,
           exc |-> "none", user |-> 0, token |-> <<>>, http |-> "none",
           detail |-> "none"]

NoToken == [token |-> <<>>, user_id |-> 0, role |-> <<>>, delta |-> DefaultDelta,
            iat |-> 0, key |-> <<>>]
NoRet == [op |-> "none", token |-> <<>>, result |-> None]
NotRejected == [seen |-> FALSE, at |-> 0]

InitToken ==
    /\ now = StartTime
    /\ secret_key = Str_change_me
    /\ held = NoToken
    /\ presented = <<>>
    /\ ret = NoRet
    /\ rejected = NotRejected

---------------------------------------------------------------------------
(* The user table (models/user.py) and the auth layer on top of it *)

Str_root == <<"r", "o", "o", "t">>
Str_bob == <<"b", "o", "b">>
Str_eve == <<"e", "v", "e">>
Usernames == {Str_root, Str_bob}

\* Email addresses (User.email), and "" for a register_user call without one
Email_root == <<"r", "@", "x">>
Email_bob == <<"b", "@", "x">>
Email_eve == <<"e", "@", "x">>

\* User.phone is Optional[str]: None, or a one-element tuple holding the str
PhoneNone == <<>>
Phone(s) == <<s>>
Phone_1 == Phone(<<"1", "3", "8">>)

\* The ids followed: an administrator created at installation, and the ids
\* the table gives to the next rows inserted
AdminId == 7
NextId == 42
UserIds == {AdminId, NextId, NextId + 1}

\* A row of the table; last_login_at = 0 is NULL
NoRow == [exists |-> FALSE, username |-> <<>>, password |-> <<>>, role |-> <<>>,
          email |-> <<>>, phone |-> PhoneNone,
          status |-> FALSE, is_deleted |-> FALSE,
          last_login_at |-> 0, updated_at |-> 0]

\* The autoincrement primary key: the id the next inserted row gets
\* (0: the ids followed by the model are used up)
FreshId(db) ==
    IF ~db[NextId].exists THEN NextId
    ELSE IF ~db[NextId + 1].exists THEN NextId + 1
    ELSE 0

\* db.query(User).filter(User.id == id, User.is_deleted.is_(False)).first():
\* the id of the row, 0 for None
QueryById(db, id) ==
    IF id \in UserIds /\ db[id].exists /\ ~db[id].is_deleted THEN id ELSE 0

\* get_user_by_username(db, username): the id of the row, 0 for None
get_user_by_username(db, username) ==
    IF \E id \in UserIds :
          db[id].exists /\ db[id].username = username /\ ~db[id].is_deleted
    THEN CHOOSE id \in UserIds :
          db[id].exists /\ db[id].username = username /\ ~db[id].is_deleted
    ELSE 0

\* get_user_by_email(db, email): the id of the row, 0 for None
get_user_by_email(db, email) ==
    IF \E id \in UserIds :
          db[id].exists /\ db[id].email = email /\ ~db[id].is_deleted
    THEN CHOOSE id \in UserIds :
          db[id].exists /\ db[id].email = email /\ ~db[id].is_deleted
    ELSE 0

\* The unique indexes of the table (username, email, phone), which count
\* every row, soft-deleted ones included, and no NULL: whether the INSERT
\* of a row with these values is refused
UniqueViolation(db, username, email, phone) ==
    \E id \in UserIds :
        /\ db[id].exists
        /\ \/ db[id].username = username
           \/ db[id].email = email
           \/ phone # PhoneNone /\ db[id].phone = phone

\* What a dependency gives: the user it resolved, or the HTTPException raised
\* (msg: the text of the exception, where a route answers with it)
Resolved(id) == [exc |-> "none", user |-> id, msg |-> "none"]
Raise(exc, msg) == [exc |-> exc, user |-> 0, msg |-> msg]
HttpError(code) == Raise(code, code)

\* The second half of get_current_user: the row of the decoded payload
UserOfPayload(payload, db) ==
    IF payload.exc # "none" THEN HttpError("500")
    ELSE IF ~payload.some THEN HttpError("401")
    ELSE LET user == QueryById(db, payload.payload.user_id) IN
         IF user = 0 \/ ~db[user].status THEN HttpError("401")
         ELSE Resolved(user)

GetCurrentUserIgnoresStatus(secret, time, token, db) ==
    UserOfPayload(decode_token(secret, time, token),
                  [id \in UserIds |-> [db[id] EXCEPT !.status = TRUE]])

\* get_current_user(token, db) under settings.secret_key = secret at
\* time.time() = time.  The payloads that verify are those
\* create_access_token signed, which all carry a user_id.
get_current_user(secret, time, token, db) ==
    UserOfPayload(decode_token(secret, time, token), db)

\* The body of get_current_admin: the role test on the resolved user
AdminOf(current_user, role) ==
    IF current_user.exc # "none" THEN current_user
    ELSE IF role # Str_admin THEN HttpError("403")
    ELSE current_user

\* current_user.role of a resolved user
RoleOf(current_user, db) ==
    IF current_user.user \in UserIds THEN db[current_user.user].role ELSE <<>>

AdminOfUser(current_user, db) == AdminOf(current_user, RoleOf(current_user, db))

GetCurrentAdminTrustsTokenRole(secret, time, token, db) ==
    AdminOf(get_current_user(secret, time, token, db),
            decode_token(secret, time, token).payload.role)

\* get_current_admin, with the get_current_user dependency it is built on
get_current_admin(secret, time, token, db) ==
    AdminOfUser(get_current_user(secret, time, token, db), db)

\* The table at installation, a second before the process starts: the
\* administrator, whose password is "pw"
InitUsers ==
    [id \in UserIds |->
        IF id = AdminId
        THEN [exists |-> TRUE, username |-> Str_root,
              password |-> get_password_hash(Str_pw, Salt1).value,
              role |-> Str_admin, email |-> Email_root, phone |-> PhoneNone,
              status |-> TRUE, is_deleted |-> FALSE,
              last_login_at |-> 0, updated_at |-> StartTime - 1]
        ELSE NoRow]

InitAuth ==
    /\ users = InitUsers
    /\ auth = NoAuth

---------------------------------------------------------------------------
(* Concurrent calls: each worker thread runs one call at a time, a call     *)
(* being the sequence of its reads of shared state (settings, the clock,    *)
(* os.urandom) with the computation in between                              *)

Workers == {"w1", "w2"}

\* A frame: the function called, its arguments (a, b, email: str; phone;
\* n: int; delta),
\* its locals (secret, time: what it read; mid: what it computed so far),
\* and, as a ghost, the checks it has executed
Idle == [pc |-> "idle", op |-> "none", a |-> <<>>, b |-> <<>>, n |-> 0,
         email |-> <<>>, phone |-> <<>>,
         delta |-> DefaultDelta, secret |-> <<>>, time |-> 0, read |-> FALSE,
         mid |-> <<>>, exc |-> "none", result |-> <<>>, steps |-> <<>>]

InitCalls == calls = [w \in Workers |-> Idle]

\* The token a client of the model presents to concurrent decode_token calls
ShortLived ==
    IssuedToken[Str_change_me, StartTime,
                [user_id |-> 42, role |-> Str_student], Delta(1)]

\* The calls made concurrently
Requests ==
    {[Idle EXCEPT !.pc = "called", !.op = "decode_token", !.a = token] :
        token \in {ShortLived, <<"{", "}", ".", "A", "A", "A", "A">>}}
    \cup {[Idle EXCEPT !.pc = "called", !.op = "create_access_token",
                       !.n = u.user_id, !.a = u.role, !.delta = Delta(1)] :
        u \in Users}
    \cup {[Idle EXCEPT !.pc = "called", !.op = "verify_password", !.a = password,
                       !.b = get_password_hash(Str_pw, Salt1).value] :
        password \in {Str_pw, <<"p", "W">>}}
    \cup {[Idle EXCEPT !.pc = "called", !.op = "get_password_hash", !.a = password] :
        password \in {Str_pw, <<>>}}

FrameOfAnotherCall(w) ==
    calls[CHOOSE v \in Workers : calls[v].pc # "idle"]

\* The frame the code of worker w works on: its own
Frame(w) == calls[w]

Done(c, exc, result) == [c EXCEPT !.pc = "done", !.exc = exc, !.result = result]

\* A worker starts a call
Call(w, request) ==
    /\ calls[w].pc = "idle"
    /\ calls' = [calls EXCEPT ![w] = request]
    /\ UNCHANGED <<hvars, tvars, avars>>

\* The caller takes the result
Return(w) ==
    /\ calls[w].pc = "done"
    /\ calls' = [calls EXCEPT ![w] = Idle]
    /\ UNCHANGED <<hvars, tvars, avars>>

\* decode_token, lines 162-165: the empty-token test, then the serializer
\* is built from settings.secret_key
DecodeSerializer(w) ==
    LET c == Frame(w) IN
    /\ calls[w].pc = "called" /\ calls[w].op = "decode_token"
    /\ calls' = [calls EXCEPT ![w] =
          IF Len(c.a) = 0 THEN Done(calls[w], "none", None)
          ELSE [calls[w] EXCEPT !.pc = "unsign", !.secret = secret_key]]
    /\ UNCHANGED <<hvars, tvars, avars>>

\* decode_token, lines 166-172, first half of s.loads(token):
\* Signer.unsign; BadSignature is swallowed into None
DecodeUnsign(w) ==
    LET c == Frame(w)
        u == Unsign(calls[w].secret, c.a)
        f == [calls[w] EXCEPT !.steps = Append(@, "signature")]
    IN /\ calls[w].pc = "unsign"
       /\ calls' = [calls EXCEPT ![w] =
             IF ~u.ok THEN Done(f, "none", None)
             ELSE [f EXCEPT !.pc = "load_payload", !.mid = u.value]]
       /\ UNCHANGED <<hvars, tvars, avars>>

\* decode_token, lines 166-172, second half of s.loads(token):
\* load_payload on the text unsign returned; BadPayload is swallowed into None
DecodeLoadPayload(w) ==
    LET obj == JsonLoads(calls[w].mid)
        f == [calls[w] EXCEPT !.steps = Append(@, "parse")]
    IN /\ calls[w].pc = "load_payload"
       /\ calls' = [calls EXCEPT ![w] =
             IF ~obj.ok THEN Done(f, "none", None)
             ELSE [f EXCEPT !.pc = "expiry", !.mid = obj]]
       /\ UNCHANGED <<hvars, tvars, avars>>

\* decode_token, lines 174-181: the expiry test against time.time()
DecodeExpiry(w) ==
    /\ calls[w].pc = "expiry"
    /\ calls' = [calls EXCEPT ![w] =
          Done([calls[w] EXCEPT !.time = now, !.read = TRUE,
                                !.steps = Append(@, "expiry")],
               ExpiryChecked(calls[w].mid, now).exc,
               ExpiryChecked(calls[w].mid, now))]
    /\ UNCHANGED <<hvars, tvars, avars>>

\* create_access_token, lines 135-138: now = int(time.time()), exp_seconds
CreateReadClock(w) ==
    /\ calls[w].pc = "called" /\ calls[w].op = "create_access_token"
    /\ calls' = [calls EXCEPT ![w] =
          [calls[w] EXCEPT !.pc = "dumps", !.time = now, !.read = TRUE]]
    /\ UNCHANGED <<hvars, tvars, avars>>

\* create_access_token, lines 140-151: the payload, the serializer built
\* from settings.secret_key, s.dumps(payload)
CreateDumps(w) ==
    LET c == Frame(w) IN
    /\ calls[w].pc = "dumps"
    /\ calls' = [calls EXCEPT ![w] =
          Done([calls[w] EXCEPT !.secret = secret_key], "none",
               Dumps(secret_key,
                     [user_id |-> c.n, role |-> c.a, iat |-> calls[w].time,
                      exp |-> calls[w].time + ExpSeconds(c.delta)]))]
    /\ UNCHANGED <<hvars, tvars, avars>>

\* verify_password, lines 87-96: the parse of the record
VerifyParse(w) ==
    LET c == Frame(w) IN
    /\ calls[w].pc = "called" /\ calls[w].op = "verify_password"
    /\ calls' = [calls EXCEPT ![w] =
          IF ~ParseRecord(c.b).ok THEN Done(calls[w], "none", FALSE)
          ELSE [calls[w] EXCEPT !.pc = "derive", !.mid = ParseRecord(c.b)]]
    /\ UNCHANGED <<hvars, tvars, avars>>

\* verify_password, lines 98-104: pbkdf2_hmac and compare_digest
VerifyDerive(w) ==
    LET c == Frame(w)
        rec == calls[w].mid
        new_dk == Pbkdf2Hmac(EncodeUtf8(c.a), rec.salt, rec.iterations)
    IN /\ calls[w].pc = "derive"
       /\ calls' = [calls EXCEPT ![w] =
             IF new_dk.exc # "none" THEN Done(calls[w], new_dk.exc, FALSE)
             ELSE Done(calls[w], "none", CompareDigest(new_dk.value, rec.expected))]
       /\ UNCHANGED <<hvars, tvars, avars>>

\* get_password_hash, lines 58-62: the empty-password test, then
\* salt = os.urandom(16)
HashDrawSalt(w, salt) ==
    LET c == Frame(w) IN
    /\ calls[w].pc = "called" /\ calls[w].op = "get_password_hash"
    /\ IF Len(c.a) = 0
       THEN /\ calls' = [calls EXCEPT ![w] = Done(calls[w], "ValueError", <<>>)]
            /\ UNCHANGED hlog
       ELSE /\ \A i \in 1..Len(hlog) : hlog[i].salt # salt
            /\ calls' = [calls EXCEPT ![w] =
                  [calls[w] EXCEPT !.pc = "format", !.mid = salt]]
            /\ hlog' = Append(hlog, [password |-> c.a, salt |-> salt,
                                      record |-> <<>>])
    /\ UNCHANGED <<stored, storedBy, hcall, tvars, avars>>

\* get_password_hash, lines 63-75: pbkdf2_hmac and the record
HashFormat(w) ==
    LET c == Frame(w)
        dk == Pbkdf2Hmac(EncodeUtf8(c.a), calls[w].mid, PBKDF2_ITERATIONS).value
    IN /\ calls[w].pc = "format"
       /\ calls' = [calls EXCEPT ![w] =
             Done(calls[w], "none",
                  FormatRecord(HASH_NAME, PBKDF2_ITERATIONS, calls[w].mid, dk))]
       /\ UNCHANGED <<hvars, tvars, avars>>

Init == InitHasher /\ InitToken /\ InitAuth /\ InitCalls

\* A login or registration: create_access_token(user.id, user.role, delta);
\* the client keeps the token and presents it from now on.
CreateAccessToken(user, delta) ==
    /\ held' = [token |-> IssuedToken[secret_key, now, user, delta],
                user_id |-> user.user_id, role |-> user.role,
                delta |-> delta, iat |-> now, key |-> secret_key]
    /\ presented' = held'.token
    /\ ret' = NoRet
    /\ rejected' = NotRejected
    /\ UNCHANGED <<now, secret_key>>
    /\ auth' = NoAuth
    /\ UNCHANGED <<hvars, users, calls>>

\* An authenticated request: decode_token(token) on the Bearer string
DecodeToken ==
    /\ ret' = [op |-> "decode", token |-> presented,
               result |-> decode_token(secret_key, now, presented)]
    /\ rejected' = IF ~rejected.seen /\ ~ret'.result.some
                   THEN [seen |-> TRUE, at |-> now]
                   ELSE rejected
    /\ UNCHANGED <<now, secret_key, held, presented>>
    /\ auth' = NoAuth
    /\ UNCHANGED <<hvars, users, calls>>

\* time.time() moves on
Tick(step) ==
    /\ NumTicks(now) < MaxTicks
    /\ now' = now + step
    /\ ret' = NoRet
    /\ UNCHANGED <<secret_key, held, presented, rejected>>
    /\ auth' = NoAuth
    /\ UNCHANGED <<hvars, users, calls>>

\* The process is restarted with another SECRET_KEY
RotateSecret(secret) ==
    /\ secret # secret_key
    /\ secret_key' = secret
    /\ ret' = NoRet
    /\ rejected' = NotRejected
    /\ UNCHANGED <<now, held, presented>>
    /\ auth' = NoAuth
    /\ UNCHANGED <<hvars, users, calls>>

\* The client changes character i of the token it was issued
Tamper(i, c) ==
    /\ held # NoToken
    /\ presented = held.token
    /\ presented' = [presented EXCEPT ![i] = c]
    /\ ret' = NoRet
    /\ rejected' = NotRejected
    /\ UNCHANGED <<now, secret_key, held>>
    /\ auth' = NoAuth
    /\ UNCHANGED <<hvars, users, calls>>

\* The client appends a character to the token it was issued
Extend(c) ==
    /\ held # NoToken
    /\ presented = held.token
    /\ presented' = Append(presented, c)
    /\ ret' = NoRet
    /\ rejected' = NotRejected
    /\ UNCHANGED <<now, secret_key, held>>
    /\ auth' = NoAuth
    /\ UNCHANGED <<hvars, users, calls>>

\* The client presents a string that was never issued
PresentGarbage(g) ==
    /\ presented' = g
    /\ ret' = NoRet
    /\ rejected' = NotRejected
    /\ UNCHANGED <<now, secret_key, held>>
    /\ auth' = NoAuth
    /\ UNCHANGED <<hvars, users, calls>>

\* What a dependency answered to a request carrying token
Answered(op, token, r) ==
    [NoAuth EXCEPT !.op = op, !.exc = r.exc, !.user = r.user, !.token = token]

\* JSON texts other than a token payload: a list, a number, null, a mapping
\* without exp, and mappings whose exp is null, a list, a number written as
\* text, a text that is no number, and an integer
SignedTexts ==
    { Json_empty_list, <<"5">>, Json_null, Json_empty_dict,
      Json_only_exp \o Json_null \o <<"}">>,
      Json_only_exp \o Json_empty_list \o <<"}">>,
      Json_only_exp \o <<Quote>> \o IntToStr(StartTime + 1) \o <<Quote, "}">>,
      Json_only_exp \o <<Quote, "x", Quote, "}">>,
      Json_only_exp \o IntToStr(StartTime + 1) \o <<"}">> }

\* The client presents Serializer(secret_key).dumps of another object: a
\* string signed by some holder of settings.secret_key, whose default is
\* written in config.py
PresentSigned(text) ==
    /\ presented' = Sign(secret_key, text)
    /\ ret' = NoRet
    /\ rejected' = NotRejected
    /\ UNCHANGED <<now, secret_key, held>>
    /\ auth' = NoAuth
    /\ UNCHANGED <<hvars, users, calls>>

\* An authenticated request: the get_current_user dependency on the Bearer
\* string
GetCurrentUser ==
    /\ auth' = Answered("get_current_user", presented,
                        get_current_user(secret_key, now, presented, users))
    /\ UNCHANGED <<users, hvars, tvars, calls>>

\* A request to an admin-only route: the get_current_admin dependency
GetCurrentAdmin ==
    /\ auth' = Answered("get_current_admin", presented,
                        get_current_admin(secret_key, now, presented, users))
    /\ UNCHANGED <<users, hvars, tvars, calls>>

\* The end of authenticate_user: the user when verify_password said True
PasswordChecked(v, user) ==
    IF v.exc # "none" THEN Raise(v.exc, "pbkdf2_hmac")
    ELSE IF ~v.value THEN Resolved(0)
    ELSE Resolved(user)

AuthenticateUserTellsUnknown(db, username, password) ==
    LET user == get_user_by_username(db, username) IN
    IF user = 0 THEN Raise("ValueError", "unknown user")
    ELSE IF ~db[user].status \/ db[user].is_deleted THEN Resolved(0)
    ELSE PasswordChecked(verify_password(password, db[user].password), user)

AuthenticateUserIgnoresDisabled(db, username, password) ==
    LET user == get_user_by_username(db, username) IN
    IF user = 0 THEN Resolved(0)
    ELSE PasswordChecked(verify_password(password, db[user].password), user)

\* authenticate_user(db, username, password): the id of the user, 0 for
\* None; what verify_password raises escapes.
authenticate_user(db, username, password) ==
    LET user == get_user_by_username(db, username) IN
    IF user = 0 THEN Resolved(0)
    ELSE IF ~db[user].status \/ db[user].is_deleted THEN Resolved(0)
    ELSE PasswordChecked(verify_password(password, db[user].password), user)

\* The text of the ValueError of login, line 63
BadCredentials == "bad username or password"

\* The test of login on what authenticate_user returned
UserOrValueError(user) ==
    IF user.exc # "none" THEN user
    ELSE IF user.user = 0 THEN Raise("ValueError", BadCredentials)
    ELSE user

\* auth_service.login(db, username, password): the user a token is made
\* for, or the exception raised
login(db, username, password) ==
    UserOrValueError(authenticate_user(db, username, password))

\* The status the POST /login route answers with: ValueError becomes a
\* 401, any other exception is left to the framework (500)
LoginStatus(exc) ==
    IF exc = "none" THEN "200" ELSE IF exc = "ValueError" THEN "401" ELSE "500"

LoginCommitWritesNothing(db, user, time) == db

\* login, lines 65-67: user.last_login_at = datetime.utcnow(), db.add,
\* db.commit.  The UPDATE the commit issues also sets updated_at, the
\* column declared with onupdate=datetime.utcnow (models/user.py, 22-27).
LoginCommit(db, user, time) ==
    [db EXCEPT ![user].last_login_at = time, ![user].updated_at = time]

\* The login route once auth_service.login returned or raised r:
\* create_access_token(user.id, user.role), or the error answer
LoginAnswer(username, password, r) ==
    /\ IF r.exc = "none"
       THEN /\ held' = [token |-> IssuedToken[secret_key, now,
                                     [user_id |-> r.user, role |-> users[r.user].role],
                                     DefaultDelta],
                        user_id |-> r.user, role |-> users[r.user].role,
                        delta |-> DefaultDelta, iat |-> now, key |-> secret_key]
            /\ presented' = held'.token
            /\ users' = LoginCommit(users, r.user, now)
            /\ auth' = [NoAuth EXCEPT !.op = "login", !.username = username,
                        !.password = password, !.exc = "none", !.user = r.user,
                        !.token = held'.token, !.http = LoginStatus("none")]
       ELSE /\ auth' = [NoAuth EXCEPT !.op = "login", !.username = username,
                        !.password = password, !.exc = r.exc,
                        !.http = LoginStatus(r.exc), !.detail = r.msg]
            /\ UNCHANGED <<held, presented, users>>
    /\ ret' = NoRet
    /\ rejected' = NotRejected
    /\ UNCHANGED <<now, secret_key, hvars, calls>>

\* POST /login: auth_service.login, then create_access_token(user.id,
\* user.role); the client keeps the token and presents it from now on.
Login(username, password) ==
    LoginAnswer(username, password, login(users, username, password))

\* register_user, lines 88-91: the two lookups before anything is written
\* ("none": both passed)
RegisterLookupsFindNothing(db, username, email) == "none"

RegisterLookups(db, username, email) ==
    IF get_user_by_username(db, username) # 0 THEN "ValueError"
    ELSE IF Len(email) > 0 /\ get_user_by_email(db, email) # 0 THEN "ValueError"
    ELSE "none"

\* The exception register_user(db, username, password, email, phone) ends
\* with, "none" when it returns: the lookups (ValueError), get_password_hash
\* (ValueError for an empty password), then db.commit(), where the unique
\* indexes of the table refuse the INSERT (sqlalchemy.exc.IntegrityError,
\* which is no ValueError)
RegisterOutcome(db, username, password, email, phone) ==
    IF RegisterLookups(db, username, email) # "none"
    THEN RegisterLookups(db, username, email)
    ELSE IF Len(password) = 0 THEN "ValueError"
    ELSE IF UniqueViolation(db, username, email, phone) THEN "IntegrityError"
    ELSE "none"

NewUserDisabled(username, hashed, email, phone, time) ==
    [exists |-> TRUE, username |-> username, password |-> hashed,
     role |-> Str_student, email |-> email, phone |-> phone,
     status |-> FALSE, is_deleted |-> FALSE,
     last_login_at |-> 0, updated_at |-> time]

\* The row register_user inserts (lines 95-104), written at time.time() = time
NewUser(username, hashed, email, phone, time) ==
    [exists |-> TRUE, username |-> username, password |-> hashed,
     role |-> Str_student, email |-> email, phone |-> phone,
     status |-> TRUE, is_deleted |-> FALSE,
     last_login_at |-> 0, updated_at |-> time]

\* The status the POST /register route answers with: ValueError becomes a
\* 400, any other exception is left to the framework (500)
RegisterStatus(exc) ==
    IF exc = "none" THEN "200" ELSE IF exc = "ValueError" THEN "400" ELSE "500"

\* os.urandom as a source of fresh values: a salt no call drew before
FreshSalts == {salt \in Salts : \A i \in 1..Len(hlog) : hlog[i].salt # salt}

\* register_user and its route once the outcome exc is known; id is the
\* primary key of the new row and salt what os.urandom gave get_password_hash
RegisterAnswer(username, password, email, phone, exc, id, salt) ==
    /\ IF exc = "none"
       THEN /\ users' = [users EXCEPT ![id] =
                           NewUser(username, get_password_hash(password, salt).value,
                                   email, phone, now)]
            /\ held' = [token |-> create_access_token(secret_key, now, id,
                                                      Str_student, DefaultDelta),
                        user_id |-> id, role |-> Str_student,
                        delta |-> DefaultDelta, iat |-> now, key |-> secret_key]
            /\ presented' = held'.token
            /\ auth' = [NoAuth EXCEPT !.op = "register", !.username = username,
                        !.password = password, !.email = email, !.phone = phone,
                        !.user = id, !.token = held'.token,
                        !.http = RegisterStatus("none")]
       ELSE /\ auth' = [NoAuth EXCEPT !.op = "register", !.username = username,
                        !.password = password, !.email = email, !.phone = phone,
                        !.exc = exc, !.http = RegisterStatus(exc)]
            /\ UNCHANGED <<users, held, presented>>
    /\ hlog' = IF exc \in {"none", "IntegrityError"}
               THEN Append(hlog, [password |-> password, salt |-> salt,
                                  record |-> get_password_hash(password, salt).value])
               ELSE hlog
    /\ ret' = NoRet
    /\ rejected' = NotRejected
    /\ UNCHANGED <<now, secret_key, stored, storedBy, hcall, calls>>

\* POST /register: auth_service.register_user(db, username, password,
\* real_name, email, phone), one call run from start to end.  The new row
\* gets the next id of the table.
Register(username, password, email, phone) ==
    /\ RegisterOutcome(users, username, password, email, phone) = "none"
          => FreshId(users) # 0
    /\ RegisterOutcome(users, username, password, email, phone)
          \in {"none", "IntegrityError"} => FreshSalts # {}
    /\ RegisterAnswer(username, password, email, phone,
                      RegisterOutcome(users, username, password, email, phone),
                      FreshId(users), CHOOSE salt \in FreshSalts : TRUE)

\* The register_user calls made concurrently: the same username with two
\* emails, and the same email with two usernames
RegisterRequests ==
    {[Idle EXCEPT !.pc = "called", !.op = "register_user", !.a = r[1],
                  !.b = Str_pw, !.email = r[2], !.phone = PhoneNone] :
        r \in {<<Str_bob, Email_bob>>, <<Str_bob, Email_eve>>, <<Str_eve, Email_bob>>}}

\* register_user, lines 88-91: the two lookups, each a SELECT of its own
RegisterCheck(w) ==
    LET c == Frame(w) IN
    /\ calls[w].pc = "called" /\ calls[w].op = "register_user"
    /\ calls' = [calls EXCEPT ![w] =
          IF RegisterLookups(users, c.a, c.email) # "none"
          THEN Done(calls[w], RegisterLookups(users, c.a, c.email), <<>>)
          ELSE [calls[w] EXCEPT !.pc = "hash"]]
    /\ UNCHANGED <<hvars, tvars, avars>>

\* register_user, line 93: get_password_hash(password), with a fresh salt
RegisterHash(w) ==
    LET c == Frame(w) IN
    /\ calls[w].pc = "hash"
    /\ FreshSalts # {}
    /\ calls' = [calls EXCEPT ![w] =
          [calls[w] EXCEPT !.pc = "commit",
              !.mid = get_password_hash(c.b, CHOOSE salt \in FreshSalts : TRUE).value]]
    /\ hlog' = Append(hlog, [password |-> c.b,
                              salt |-> CHOOSE salt \in FreshSalts : TRUE,
                              record |-> calls'[w].mid])
    /\ UNCHANGED <<stored, storedBy, hcall, tvars, avars>>

\* register_user, lines 95-107: the INSERT at db.commit(), which the unique
\* indexes refuse or which gives the row its id
RegisterCommit(w) ==
    LET c == Frame(w) IN
    /\ calls[w].pc = "commit"
    /\ IF UniqueViolation(users, c.a, c.email, c.phone)
       THEN /\ calls' = [calls EXCEPT ![w] = Done(calls[w], "IntegrityError", <<>>)]
            /\ UNCHANGED users
       ELSE /\ FreshId(users) # 0
            /\ users' = [users EXCEPT ![FreshId(users)] =
                            NewUser(c.a, calls[w].mid, c.email, c.phone, now)]
            /\ calls' = [calls EXCEPT ![w] =
                  [calls[w] EXCEPT !.pc = "token", !.n = FreshId(users)]]
    /\ UNCHANGED <<hvars, tvars, auth>>

\* register_user, lines 109-110: create_access_token(user.id, user.role)
RegisterToken(w) ==
    /\ calls[w].pc = "token"
    /\ calls' = [calls EXCEPT ![w] =
          Done([calls[w] EXCEPT !.time = now, !.read = TRUE, !.secret = secret_key],
               "none",
               create_access_token(secret_key, now, calls[w].n, Str_student,
                                   DefaultDelta))]
    /\ UNCHANGED <<hvars, tvars, avars>>

\* An administrator disables or re-enables an account (User.status)
SetStatus(id, status) ==
    /\ users[id].exists
    /\ users[id].status # status
    /\ users' = [users EXCEPT ![id].status = status]
    /\ auth' = NoAuth
    /\ UNCHANGED <<hvars, tvars, calls>>

\* An account is soft-deleted (User.is_deleted)
SoftDelete(id) ==
    /\ users[id].exists
    /\ ~users[id].is_deleted
    /\ users' = [users EXCEPT ![id].is_deleted = TRUE]
    /\ auth' = NoAuth
    /\ UNCHANGED <<hvars, tvars, calls>>

\* An account is given another role (User.role)
SetRole(id, role) ==
    /\ users[id].exists
    /\ users[id].role # role
    /\ users' = [users EXCEPT ![id].role = role]
    /\ auth' = NoAuth
    /\ UNCHANGED <<hvars, tvars, calls>>

---------------------------------------------------------------------------
(* DuckDuckGoSearchClient.search (AI/Tool/NetTool/net_search.py)           *)

\* Model bounds of a search
MaxTopics == 2            \* longest RelatedTopics list of a response
MaxResults == 2           \* largest max_results argument

Str_q == <<"q">>

\* An entry of RelatedTopics, or of the Topics of a group: has_text and
\* has_url say whether the keys "Text" and "FirstURL" are present, topics is
\* the "Topics" list of a group (has_topics: the key is present)
Topic(text, url) ==
    [has_text |-> TRUE, text |-> text, has_url |-> TRUE, url |-> url,
     has_topics |-> FALSE, topics |-> <<>>]
NoUrlTopic(text) ==
    [has_text |-> TRUE, text |-> text, has_url |-> FALSE, url |-> <<>>,
     has_topics |-> FALSE, topics |-> <<>>]
Group(topics) ==
    [has_text |-> FALSE, text |-> <<>>, has_url |-> FALSE, url |-> <<>>,
     has_topics |-> TRUE, topics |-> topics]

\* SearchResult(title, url, snippet, source="duckduckgo") of an entry
SearchResult(item) ==
    [title |-> item.text, url |-> item.url, snippet |-> item.text]

\* Lines 100-109: the results of the entries of a group, in order
RECURSIVE GroupResults(_)
GroupResults(topics) ==
    IF Len(topics) = 0 THEN <<>>
    ELSE (IF Head(topics).has_text /\ Head(topics).has_url
          THEN <<SearchResult(Head(topics))>> ELSE <<>>)
         \o GroupResults(Tail(topics))

\* Lines 90-109: what one entry of RelatedTopics appends to results
ItemResults(item) ==
    IF item.has_text /\ item.has_url THEN <<SearchResult(item)>>
    ELSE IF item.has_topics THEN GroupResults(item.topics)
    ELSE <<>>

\* Lines 88-113: the loop over RelatedTopics; the length test of line 110
\* comes after the whole entry was handled
RECURSIVE SearchLoop(_, _, _)
SearchLoop(related_topics, results, max_results) ==
    IF Len(related_topics) = 0 THEN results
    ELSE IF Len(results \o ItemResults(Head(related_topics))) >= max_results
         THEN results \o ItemResults(Head(related_topics))
    ELSE SearchLoop(Tail(related_topics),
                    results \o ItemResults(Head(related_topics)), max_results)

\* search(query, max_results=max_results) when the API answers with
\* RelatedTopics = related_topics
search(query, max_results, related_topics) ==
    IF Len(query) = 0 THEN Raised("ValueError")
    ELSE Returned(SearchLoop(related_topics, <<>>, max_results))

\* The entries a response is made of
Topics ==
    { Topic(<<"a">>, <<"u">>), NoUrlTopic(<<"b">>),
      Group(<<Topic(<<"c">>, <<"v">>), Topic(<<"d">>, <<"w">>)>>),
      Group(<<NoUrlTopic(<<"e">>), Topic(<<"f">>, <<"x">>)>>),
      Group(<<>>) }

\* The RelatedTopics lists of the responses
RECURSIVE TopicLists(_)
TopicLists(n) ==
    IF n = 0 THEN {<<>>}
    ELSE TopicLists(n - 1)
         \cup {Append(l, t) : l \in {m \in TopicLists(n - 1) : Len(m) = n - 1},
                              t \in Topics}

\* The search calls made
SearchRequests ==
    {[Idle EXCEPT !.pc = "called", !.op = "search", !.a = query, !.n = max_results] :
        query \in {<<>>, Str_q}, max_results \in 0..MaxResults}

\* search, from the call to its return, with the response requests.get gave
Search(w, related_topics) ==
    LET c == Frame(w) IN
    /\ calls[w].pc = "called" /\ calls[w].op = "search"
    /\ calls' = [calls EXCEPT ![w] =
          Done([calls[w] EXCEPT !.mid = related_topics],
               search(c.a, c.n, related_topics).exc,
               IF search(c.a, c.n, related_topics).exc = "none"
               THEN search(c.a, c.n, related_topics).value ELSE <<>>)]
    /\ UNCHANGED <<hvars, tvars, avars>>

---------------------------------------------------------------------------
(* Specifications *)

\* The password hasher on its own
NextHasher ==
    \/ \E password \in Passwords, salt \in Salts : GetPasswordHash(password, salt)
    \/ \E record \in RawRecords : StoreRaw(record)
    \/ \E plain_password \in Passwords : VerifyPassword(plain_password)

SpecHasher == Init /\ [][NextHasher]_vars

\* The token codec over time and across secret rotations
NextToken ==
    \/ \E user \in Users, delta \in Deltas : CreateAccessToken(user, delta)
    \/ DecodeToken
    \/ \E step \in ClockSteps : Tick(step)
    \/ \E secret \in Secrets : RotateSecret(secret)
    \/ \E g \in Garbage : PresentGarbage(g)

SpecToken == Init /\ [][NextToken]_vars

\* The token codec against a client that logs in once and then modifies
\* the token it was issued
NextTamper ==
    \/ \E user \in Users, delta \in Deltas :
          held = NoToken /\ CreateAccessToken(user, delta)
    \/ DecodeToken
    \/ \E i \in 1..Len(presented) : \E c \in OtherChars(presented[i]) : Tamper(i, c)
    \/ \E c \in {"=", "A"} : Extend(c)

SpecTamper == Init /\ [][NextTamper]_vars

\* The auth dependencies over a changing user table, with tokens that are
\* unexpired, at their last valid second, and expired when presented
NextAuth ==
    \/ Register(Str_bob, Str_pw, Email_bob, PhoneNone)
    \/ \E user \in Users, delta \in {DefaultDelta, Delta(0), Delta(-1)} :
          CreateAccessToken(user, delta)
    \/ PresentGarbage(<<"{", "}", ".", "A", "A", "A", "A">>)
    \/ \E id \in UserIds, status \in BOOLEAN : SetStatus(id, status)
    \/ \E id \in UserIds : SoftDelete(id)
    \/ \E id \in UserIds, role \in {Str_student, Str_admin} : SetRole(id, role)
    \/ GetCurrentUser
    \/ GetCurrentAdmin

SpecAuth == Init /\ [][NextAuth]_vars

\* Logins against a user table that registrations and administrators change
NextLogin ==
    \/ \E username \in Usernames, password \in Passwords : Login(username, password)
    \/ \E password \in {<<"p", "W">>, <<>>} :
          Register(Str_bob, password, Email_bob, PhoneNone)
    \/ \E id \in UserIds, status \in BOOLEAN : SetStatus(id, status)
    \/ \E id \in UserIds : SoftDelete(id)
    \/ \E id \in UserIds, role \in {Str_student, Str_admin} : SetRole(id, role)

SpecLogin == Init /\ [][NextLogin]_vars

\* The token codec with every kind of input decode_token is given
NextSigned ==
    \/ \E text \in SignedTexts : PresentSigned(text)
    \/ \E g \in Garbage : PresentGarbage(g)
    \/ \E user \in Users, delta \in {DefaultDelta, Delta(0)} :
          CreateAccessToken(user, delta)
    \/ DecodeToken
    \/ GetCurrentUser
    \/ Tick(1)
SpecSigned == Init /\ [][NextSigned]_vars

\* Registrations, run one after another, and soft deletions
NextRegister ==
    \/ \E username \in {Str_root, Str_bob, Str_eve},
          email \in {Email_bob, Email_eve, <<>>},
          phone \in {PhoneNone, Phone_1} :
          Register(username, Str_pw, email, phone)
    \/ Register(Str_eve, <<>>, Email_eve, PhoneNone)
    \/ \E id \in UserIds : SoftDelete(id)
SpecRegister == Init /\ [][NextRegister]_vars

\* register_user calls of two workers, interleaved at every statement that
\* reads or writes the table
NextRace ==
    \/ \E w \in Workers, request \in RegisterRequests : Call(w, request)
    \/ \E w \in Workers : Return(w)
    \/ \E w \in Workers : RegisterCheck(w)
    \/ \E w \in Workers : RegisterHash(w)
    \/ \E w \in Workers : RegisterCommit(w)
    \/ \E w \in Workers : RegisterToken(w)
SpecRace == Init /\ [][NextRace]_vars

\* Searches of one worker, over the responses of the API
NextSearch ==
    \/ \E request \in SearchRequests : Call("w1", request)
    \/ \E related_topics \in TopicLists(MaxTopics) : Search("w1", related_topics)
    \/ Return("w1")
SpecSearch == Init /\ [][NextSearch]_vars

\* Calls of the four functions on two worker threads, in every interleaving
\* of their steps with each other and with the clock
NextCalls ==
    \/ \E w \in Workers, request \in Requests : Call(w, request)
    \/ \E w \in Workers : Return(w)
    \/ \E w \in Workers : DecodeSerializer(w)
    \/ \E w \in Workers : DecodeUnsign(w)
    \/ \E w \in Workers : DecodeLoadPayload(w)
    \/ \E w \in Workers : DecodeExpiry(w)
    \/ \E w \in Workers : CreateReadClock(w)
    \/ \E w \in Workers : CreateDumps(w)
    \/ \E w \in Workers : VerifyParse(w)
    \/ \E w \in Workers : VerifyDerive(w)
    \/ \E w \in Workers, salt \in Salts : HashDrawSalt(w, salt)
    \/ \E w \in Workers : HashFormat(w)
    \/ Tick(1)

SpecCalls == Init /\ [][NextCalls]_vars

---------------------------------------------------------------------------
(* Claims about the password hasher, checked under SpecHasher *)

\* The last call verified a password against the record now in the store
Verified == hcall.op = "verify"

\* C1: for every non-empty password P, verify_password(P, get_password_hash(P))
\* returns true: a verification of the password a stored record was hashed
\* from returns True.
C1_RoundTrip ==
    (Verified /\ storedBy.kind = "hash" /\ hcall.password = storedBy.password)
        => (hcall.exc = "none" /\ hcall.value = TRUE)

C1_Witness ==
    /\ Verified
    /\ storedBy.kind = "hash"
    /\ storedBy.salt # Salt1
    /\ hcall.password = storedBy.password
    /\ hcall.value = TRUE

\* C2: for all non-empty passwords P1 # P2, verify_password(P1,
\* get_password_hash(P2)) returns false.
C2_WrongPasswordRejected ==
    (Verified /\ storedBy.kind = "hash" /\ Len(hcall.password) > 0
     /\ hcall.password # storedBy.password)
        => (hcall.exc = "none" /\ hcall.value = FALSE)

C2_Witness ==
    /\ Verified
    /\ storedBy.kind = "hash"
    /\ storedBy.password = <<"p", "W">>
    /\ hcall.password = <<"p", "w">>
    /\ hcall.value = FALSE

\* C3: verify_password never raises, whatever the stored record is, and it
\* returns false for every record that is not a well-formed credential record.
C3_NeverRaises ==
    Verified =>
        /\ hcall.exc = "none"
        /\ ~WellFormed(hcall.record) => hcall.value = FALSE

\* The last call was get_password_hash
Hashed == hcall.op = "hash"

\* C11: get_password_hash raises ValueError for the empty password and
\* returns no record then (no record was ever made for it); for every
\* non-empty password it returns a record and raises nothing.
C11_EmptyPasswordRaises ==
    Hashed =>
        /\ Len(hcall.password) = 0 =>
              (hcall.exc = "ValueError" /\ hcall.record = <<>>
               /\ \A i \in 1..Len(hlog) : Len(hlog[i].password) > 0)
        /\ Len(hcall.password) > 0 =>
              (hcall.exc = "none" /\ Len(hcall.record) > 0
               /\ stored = hcall.record)

C11_Witness ==
    /\ Hashed
    /\ Len(hcall.password) = 0
    /\ hcall.exc = "ValueError"
    /\ Len(hlog) = NumSalts

\* Two get_password_hash calls, the earlier and the later
CallPairs == {p \in (1..Len(hlog)) \X (1..Len(hlog)) : p[1] < p[2]}

\* C12: no two get_password_hash calls use the same salt, two calls with
\* the same password return different records, and every record returned
\* verifies its password.
C12_SaltsNeverRepeat ==
    /\ \A p \in CallPairs :
          /\ hlog[p[1]].salt # hlog[p[2]].salt
          /\ hlog[p[1]].password = hlog[p[2]].password
                => hlog[p[1]].record # hlog[p[2]].record
    /\ \A i \in 1..Len(hlog) :
          verify_password(hlog[i].password, hlog[i].record) = Returned(TRUE)

\* The same password hashed three times, the last record stored and verified
C12_Witness ==
    /\ Len(hlog) = 3
    /\ hlog[1].password = hlog[2].password
    /\ hlog[2].password = hlog[3].password
    /\ hlog[1].record # hlog[3].record
    /\ Verified
    /\ hcall.record = hlog[3].record
    /\ hcall.value = TRUE

\* All the `$`-separated fields of a record
Fields(record) == Split(record, Dollar, Len(record))

\* C13: every record get_password_hash returns has exactly four
\* `$`-separated fields: pbkdf2_sha256, the decimal 100000, the hex of the
\* 16-byte salt and the hex of the derived key; and the parse of
\* verify_password recovers that algorithm, iteration count, salt and key.
C13_RecordFormatRoundTrip ==
    (Hashed /\ hcall.exc = "none") =>
        LET f == Fields(hcall.record)
            dk == Pbkdf2Hmac(EncodeUtf8(hcall.password), storedBy.salt,
                             PBKDF2_ITERATIONS).value
            rec == ParseRecord(hcall.record)
        IN /\ Len(f) = 4
           /\ f[1] = PBKDF2_PREFIX \o HASH_NAME
           /\ f[2] = <<"1", "0", "0", "0", "0", "0">>
           /\ Len(storedBy.salt) = SALT_SIZE
           /\ f[3] = Hex(storedBy.salt)
           /\ Len(f[3]) = 2 * SALT_SIZE
           /\ f[4] = Hex(dk)
           /\ Split(hcall.record, Dollar, 3)[1] = f[1]
           /\ rec.ok
           /\ rec.iterations = PBKDF2_ITERATIONS
           /\ rec.salt = storedBy.salt
           /\ rec.expected = dk

\* A password that itself contains `$`
C13_Witness ==
    /\ Hashed
    /\ hcall.exc = "none"
    /\ hcall.password = <<"$", "1">>
    /\ Len(Fields(hcall.record)) = 4

\* C21: verify_password recomputes the key with the salt and the iteration
\* count stored in the record: a well-formed record produced for "pw" with
\* an iteration count n > 0 other than 100000 verifies "pw", rejects every
\* other password, and the call returns.
C21_StoredIterationsUsed ==
    (hcall.op = "verify" /\ hcall.record \in OtherIterationRecords) =>
        /\ WellFormed(hcall.record)
        /\ ParseRecord(hcall.record).iterations \in OtherIterations
        /\ hcall.exc = "none"
        /\ hcall.value = (hcall.password = Str_pw)

\* "pw" was verified against a record produced with another iteration count
C21_Witness ==
    /\ hcall.op = "verify"
    /\ hcall.record \in OtherIterationRecords
    /\ ParseRecord(hcall.record).iterations # PBKDF2_ITERATIONS
    /\ hcall.password = Str_pw
    /\ hcall.value = TRUE

\* C14: verify_password returns false for every record whose algorithm
\* field is anything other than pbkdf2_sha256, whatever the other fields
\* and the plaintext are.
C14_UnknownAlgorithmRejected ==
    (Verified /\ Len(Fields(hcall.record)) > 0
     /\ Fields(hcall.record)[1] # PBKDF2_PREFIX \o HASH_NAME)
        => (hcall.exc = "none" /\ hcall.value = FALSE)

---------------------------------------------------------------------------
(* Claims about the token codec *)

\* The last call decoded the token that create_access_token returned
DecodedHeld == ret.op = "decode" /\ held # NoToken /\ ret.token = held.token

\* The payload inside a token, read without any check
PayloadOf(token) == JsonLoads(Take(token, RFind(token, Sep) - 1)).payload

\* C4 (SpecToken): for every user_id, role and ttl >= 0, decode_token of the
\* token create_access_token returned, at the creation instant and under the
\* same secret, returns a payload with that user_id and role and with
\* iat <= now <= exp.
C4_RoundTrip ==
    (DecodedHeld /\ held.key = secret_key /\ now = held.iat
     /\ ExpSeconds(held.delta) >= 0)
        => /\ ret.result.some
           /\ ret.result.payload.user_id = held.user_id
           /\ ret.result.payload.role = held.role
           /\ ret.result.payload.iat <= now
           /\ now <= ret.result.payload.exp

C4_Witness ==
    /\ DecodedHeld
    /\ held.key = secret_key
    /\ now = held.iat
    /\ held.delta = Delta(0)
    /\ held.user_id = 7
    /\ ret.result.some
    /\ ret.result.payload.role = Str_admin

\* C5 (SpecToken): the payload has exp = t0 + ttl for every whole-second ttl,
\* and the token decodes to its payload at every clock value t0 <= t <= t0 +
\* ttl and as invalid at every t > t0 + ttl.
C5_ExpiryWindow ==
    (DecodedHeld /\ held.key = secret_key)
        => LET exp == held.iat + ExpSeconds(held.delta) IN
           /\ held.iat <= now
           /\ now <= exp =>
                ret.result = Some([user_id |-> held.user_id, role |-> held.role,
                                   iat |-> held.iat, exp |-> exp])
           /\ now > exp => ret.result = None

\* The default ttl of 3600 s: accepted until t0 + 3600, rejected at t0 + 3601
C5_Witness ==
    /\ DecodedHeld
    /\ held.key = secret_key
    /\ held.delta = DefaultDelta
    /\ now = held.iat + 3601
    /\ ret.result = None

\* C6 (SpecTamper): every string obtained from an issued token by changing
\* one character decodes as invalid.
C6_TamperRejected ==
    (ret.op = "decode" /\ held # NoToken
     /\ Len(ret.token) = Len(held.token) /\ ret.token # held.token)
        => ~ret.result.some

\* C7 (SpecTamper): decode_token returns a payload only for strings that
\* create_access_token produced under the secret currently in use.
C7_OnlyIssuedTokensDecode ==
    (ret.op = "decode" /\ ret.result.some)
        => (held # NoToken /\ ret.token = held.token /\ held.key = secret_key)

\* C8 (SpecToken): with the secret unchanged and a non-decreasing clock, a
\* string that decode_token has returned invalid for is never decoded to a
\* payload later.
C8_InvalidStaysInvalid ==
    (ret.op = "decode" /\ rejected.seen) => ~ret.result.some

\* An issued token that was rejected at an earlier clock value, decoded again
C8_Witness ==
    /\ DecodedHeld
    /\ held.key = secret_key
    /\ ExpSeconds(held.delta) >= 0
    /\ rejected.seen
    /\ rejected.at < now
    /\ ~ret.result.some

\* C9 (SpecToken), as claimed: every payload create_access_token builds has
\* exp > iat, for the default, a positive, a zero and a negative ttl.
C9_ExpAfterIat ==
    held # NoToken => PayloadOf(held.token).exp > PayloadOf(held.token).iat

\* C9 (SpecToken), amended: the payload has iat = now and exp = iat + ttl, so
\* exp > iat exactly when the ttl is at least one second.
C9_ExpAfterIatIffPositiveTtl ==
    held # NoToken =>
        /\ PayloadOf(held.token).iat = held.iat
        /\ PayloadOf(held.token).exp = held.iat + ExpSeconds(held.delta)
        /\ (PayloadOf(held.token).exp > PayloadOf(held.token).iat)
               <=> (ExpSeconds(held.delta) >= 1)

C9_Witness ==
    /\ held # NoToken
    /\ held.delta = Delta(0)
    /\ now > StartTime
    /\ PayloadOf(held.token).exp = PayloadOf(held.token).iat

\* The presented string fails the signature check while the issued token is
\* correctly signed and out of date
BadSignatureAndExpired ==
    /\ ret.op = "decode"
    /\ held # NoToken
    /\ Loads(secret_key, held.token).exc = "none"
    /\ Loads(secret_key, held.token).payload.exp < now
    /\ Loads(secret_key, ret.token).exc = "BadSignature"

\* C10 (SpecTamper), as claimed: decode_token returns one value for a
\* signature mismatch and another for a correctly signed token that is out
\* of date.
C10_ReasonsDistinguishable ==
    BadSignatureAndExpired
        => ret.result # decode_token(secret_key, now, held.token)

\* C10 (SpecTamper), amended: decode_token returns None both for a signature
\* mismatch and for a correctly signed token that is out of date.
C10_BothReturnNone ==
    BadSignatureAndExpired
        => /\ ret.result = None
           /\ decode_token(secret_key, now, held.token) = None

C10_Witness ==
    /\ BadSignatureAndExpired
    /\ ret.result = None
    /\ Len(ret.token) = Len(held.token)

\* C19 (SpecToken), as claimed: a correctly signed token is valid only
\* while now < exp; at now = exp decode_token already returns invalid.
C19_ExpiredAtExp ==
    (DecodedHeld /\ held.key = secret_key)
        => LET exp == PayloadOf(held.token).exp IN
           /\ now < exp => ret.result.some
           /\ now >= exp => ~ret.result.some

\* C19 (SpecToken), amended: a correctly signed token is valid while
\* now <= exp: at now = exp decode_token still returns the payload, and it
\* returns invalid from now = exp + 1 on.
C19_ValidThroughExp ==
    (DecodedHeld /\ held.key = secret_key)
        => LET exp == PayloadOf(held.token).exp IN
           /\ now < exp => ret.result.some
           /\ now = exp => ret.result = Some(PayloadOf(held.token))
           /\ now > exp => ~ret.result.some

\* A token decoded one second after it was made, at the second it expires
C19_Witness ==
    /\ DecodedHeld
    /\ held.key = secret_key
    /\ held.delta = Delta(1)
    /\ now = held.iat + 1
    /\ now = PayloadOf(held.token).exp
    /\ ret.result.some

---------------------------------------------------------------------------
(* Claims about the auth layer *)

\* User U is in the table, not soft-deleted and enabled
Active(U) == users[U].exists /\ ~users[U].is_deleted /\ users[U].status

C16_AdminGate ==
    auth.op = "get_current_admin" =>
        LET u == get_current_user(secret_key, now, auth.token, users) IN
        /\ auth.exc \in {"none", "401", "403"}
        /\ auth.exc = "none" <=> (u.exc = "none" /\ users[u.user].role = Str_admin)
        /\ auth.exc = "none" => (auth.user = u.user /\ Active(auth.user))
        /\ auth.exc = "403" <=> (u.exc = "none" /\ users[u.user].role # Str_admin)
        /\ auth.exc = "401" <=> u.exc = "401"

\* A token issued to an administrator who has since lost the role
C16_Witness ==
    /\ auth.op = "get_current_admin"
    /\ auth.exc = "403"
    /\ auth.token = held.token
    /\ held.role = Str_admin
    /\ held.user_id = AdminId

\* C20 (SpecLogin): login returns a token only if the table holds a
\* not-deleted, enabled user with the given username whose stored record
\* verifies the given password, and then the token's payload carries that
\* user's id and stored role; in every other case it raises ValueError,
\* which the route answers with HTTP 401, and no token is created.
C20_LoginAfterVerification ==
    auth.op = "login" =>
        LET Verifies(U) ==
                /\ Active(U)
                /\ users[U].username = auth.username
                /\ verify_password(auth.password, users[U].password) = Returned(TRUE)
        IN /\ auth.exc = "none" <=> \E U \in UserIds : Verifies(U)
           /\ auth.exc = "none" =>
                /\ Verifies(auth.user)
                /\ held.token = auth.token
                /\ decode_token(secret_key, now, auth.token)
                     = Some([user_id |-> auth.user, role |-> users[auth.user].role,
                             iat |-> now, exp |-> now + ACCESS_TOKEN_EXPIRES_MINUTES * 60])
           /\ auth.exc # "none" =>
                (auth.exc = "ValueError" /\ auth.http = "401" /\ auth.token = <<>>)

\* The registered user, since made an administrator, logs in
C20_Witness ==
    /\ auth.op = "login"
    /\ auth.exc = "none"
    /\ auth.user = NextId
    /\ auth.password = <<"p", "W">>
    /\ PayloadOf(auth.token).role = Str_admin
    /\ users[AdminId].is_deleted

---------------------------------------------------------------------------
(* Claims about concurrent calls, checked under SpecCalls *)

\* What the finished call in frame c returns when it runs alone, given the
\* clock value and the salt it read
ReturnsAsAlone(c) ==
    CASE c.op = "decode_token" ->
           /\ c.exc = "none"
           /\ IF c.read THEN c.result = decode_token(secret_key, c.time, c.a)
              ELSE \A time \in Times : c.result = decode_token(secret_key, time, c.a)
      [] c.op = "create_access_token" ->
           /\ c.exc = "none"
           /\ c.result = create_access_token(secret_key, c.time, c.n, c.a, c.delta)
      [] c.op = "verify_password" ->
           [exc |-> c.exc, value |-> c.result] = verify_password(c.a, c.b)
      [] c.op = "get_password_hash" ->
           IF Len(c.a) = 0 THEN c.exc = "ValueError"
           ELSE [exc |-> c.exc, value |-> c.result] = get_password_hash(c.a, c.mid)
      [] OTHER -> FALSE

\* C17 (SpecCalls): in every interleaving of the steps of concurrent
\* get_password_hash, verify_password, create_access_token and decode_token
\* calls, no step writes the secret, the user table or the stored record,
\* and every call returns what it returns when run alone: decode_token a
\* function of (token, secret, time), verify_password of (plaintext, record).
C17_CallsIndependent ==
    /\ secret_key = Str_change_me
    /\ users = InitUsers
    /\ stored = get_password_hash(Str_pw, Salt1).value
    /\ \A w \in Workers : calls[w].pc = "done" => ReturnsAsAlone(calls[w])

\* Two overlapping decode_token calls on one token, one reading the clock
\* before the token expires and the other after
C17_Witness ==
    /\ calls["w1"].pc = "done" /\ calls["w2"].pc = "done"
    /\ calls["w1"].op = "decode_token" /\ calls["w2"].op = "decode_token"
    /\ calls["w1"].a = calls["w2"].a
    /\ calls["w1"].result # None
    /\ calls["w2"].result = None
    /\ calls["w2"].read

\* The checks of decode_token, in the order of the code
DecodeChecks == <<"signature", "parse", "expiry">>

\* C18 (SpecCalls): decode_token verifies the signature first, parses the
\* payload only after the signature verified, and tests the expiry only
\* after the payload parsed; for a token whose signature does not verify
\* neither the parse nor the expiry test is executed.
C18_ChecksInOrder ==
    \A w \in Workers :
        LET c == calls[w] IN
        c.op = "decode_token" =>
            /\ c.steps = Take(DecodeChecks, Len(c.steps))
            /\ Len(c.steps) >= 2 =>
                  /\ RFind(c.a, Sep) > 0
                  /\ verify_signature(secret_key, Take(c.a, RFind(c.a, Sep) - 1),
                                      Drop(c.a, RFind(c.a, Sep)))
            /\ Len(c.steps) = 3 => JsonLoads(Take(c.a, RFind(c.a, Sep) - 1)).ok
            /\ (c.pc = "done" /\ c.result # None) => c.steps = DecodeChecks
            /\ (c.pc = "done" /\ Len(c.steps) < 3) => c.result = None

\* One call stopped at the signature, the other went through all three checks
C18_Witness ==
    /\ calls["w1"].pc = "done" /\ calls["w1"].op = "decode_token"
    /\ calls["w1"].steps = <<"signature">>
    /\ Len(calls["w1"].a) > 0
    /\ calls["w2"].pc = "done" /\ calls["w2"].op = "decode_token"
    /\ calls["w2"].steps = DecodeChecks

---------------------------------------------------------------------------
(* Claims about registration *)

\* Two rows that are both visible (not soft-deleted) and share a username
\* or an email
SharedIdentity(db) ==
    \E i, j \in UserIds :
        /\ i # j
        /\ db[i].exists /\ ~db[i].is_deleted
        /\ db[j].exists /\ ~db[j].is_deleted
        /\ db[i].username = db[j].username \/ db[i].email = db[j].email

\* The register_user call of this step was made with the username, or the
\* non-empty email, of a user the table shows as not deleted
TakenAtCall ==
    /\ auth'.op = "register"
    /\ \/ get_user_by_username(users, auth'.username) # 0
       \/ Len(auth'.email) > 0 /\ get_user_by_email(users, auth'.email) # 0

\* C22: register_user called with the username, or with the non-empty
\* email, of an existing not-deleted user raises ValueError, adds no user
\* and issues no token; and no two not-deleted users ever share a username
\* or an email.
C22_UniqueRegistration ==
    /\ [](~SharedIdentity(users))
    /\ [][TakenAtCall =>
            /\ auth'.exc = "ValueError"
            /\ auth'.token = <<>>
            /\ UNCHANGED <<users, held, presented>>]_vars

\* A registration was refused for its email alone, with two users registered
C22_Witness ==
    /\ auth.op = "register"
    /\ auth.exc = "ValueError"
    /\ get_user_by_username(users, auth.username) = 0
    /\ Len(auth.email) > 0
    /\ get_user_by_email(users, auth.email) # 0
    /\ users[NextId].exists /\ ~users[NextId].is_deleted

\* register_user returned in the last step
Registered == auth.op = "register" /\ auth.exc = "none"

\* C23: a successful register_user adds exactly one user, a student,
\* enabled and not deleted, whose password field is a credential record
\* that verifies the supplied password and is not the plaintext; the token
\* returned, decoded at once, carries the new user's id and the role
\* "student", and get_current_user on it gives the new user.
C23_RegistrationResult ==
    /\ [](Registered =>
            /\ auth.user \in UserIds
            /\ users[auth.user].exists
            /\ users[auth.user].username = auth.username
            /\ users[auth.user].role = Str_student
            /\ users[auth.user].status
            /\ ~users[auth.user].is_deleted
            /\ users[auth.user].password # auth.password
            /\ WellFormed(users[auth.user].password)
            /\ verify_password(auth.password, users[auth.user].password)
                  = Returned(TRUE)
            /\ decode_token(secret_key, now, auth.token).some
            /\ decode_token(secret_key, now, auth.token).payload.user_id = auth.user
            /\ decode_token(secret_key, now, auth.token).payload.role = Str_student
            /\ get_current_user(secret_key, now, auth.token, users)
                  = Resolved(auth.user))
    /\ [][(auth'.op = "register" /\ auth'.exc = "none") =>
            /\ ~users[auth'.user].exists
            /\ \A id \in UserIds \ {auth'.user} : users'[id] = users[id]]_vars

\* The second registration succeeded, for a user with a phone number
C23_Witness ==
    /\ Registered
    /\ auth.user = NextId + 1
    /\ users[NextId].exists
    /\ users[auth.user].phone = Phone_1
    /\ get_current_user(secret_key, now, auth.token, users) = Resolved(auth.user)

\* C28: every register_user call that does not create a user ends with
\* ValueError, answered with HTTP 400, issues no token and leaves the store
\* unchanged; also for an empty password, for a username or email held
\* only by a soft-deleted user, and for a phone number already in use.
C28_RegistrationFailsCleanly ==
    /\ []((auth.op = "register" /\ auth.exc # "none") =>
            /\ auth.exc = "ValueError"
            /\ auth.http = "400"
            /\ auth.token = <<>>)
    /\ [][(auth'.op = "register" /\ auth'.exc # "none") =>
            UNCHANGED <<users, held, presented>>]_vars

---------------------------------------------------------------------------
(* Claims about the inputs of decode_token *)

\* C24: decode_token is total: for the empty token, a string without a
\* valid signature, and correctly signed payloads without exp, with an exp
\* that is no integer, or that are no mapping, it returns a payload or None
\* and never raises.
C24_DecodeTokenTotal ==
    ret.op = "decode" => ret.result.exc = "none"

---------------------------------------------------------------------------
(* Claims about concurrent registrations *)

\* Two register_user calls that have both ended and were made for the same
\* username or the same email
SameIdentityCalls(w, v) ==
    /\ w # v
    /\ calls[w].op = "register_user" /\ calls[w].pc = "done"
    /\ calls[v].op = "register_user" /\ calls[v].pc = "done"
    /\ calls[w].a = calls[v].a \/ calls[w].email = calls[v].email

\* C25: in every interleaving of two register_user calls for the same
\* username or the same email, at most one creates a user and the other
\* ends with ValueError; and no two not-deleted users ever share a username
\* or an email.
C25_RegistrationRace ==
    /\ ~SharedIdentity(users)
    /\ \A w, v \in Workers :
          SameIdentityCalls(w, v) =>
              /\ calls[w].exc # "none" \/ calls[v].exc # "none"
              /\ calls[w].exc \in {"none", "ValueError"}
              /\ calls[v].exc \in {"none", "ValueError"}

---------------------------------------------------------------------------
(* Claims about the role a token carries *)

OtherRole(role) == IF role = Str_admin THEN Str_student ELSE Str_admin

\* The token issued like the one the client holds, for the same user_id at
\* the same time, with the other role claim
TwinToken ==
    create_access_token(held.key, held.iat, held.user_id, OtherRole(held.role),
                        held.delta)

\* The dependency of the last request, run on the twin of the token presented
TwinOutcome ==
    IF auth.op = "get_current_user"
    THEN get_current_user(secret_key, now, TwinToken, users)
    ELSE get_current_admin(secret_key, now, TwinToken, users)

\* C26: the role embedded in a token has no influence on authorization:
\* get_current_user and get_current_admin give the same outcome for two
\* validly signed tokens with the same user_id and different role claims,
\* and get_current_admin admits a resolved user exactly when the role held
\* in the store is "admin", whatever the role at issuance was.
C26_TokenRoleIgnored ==
    (/\ auth.op \in {"get_current_user", "get_current_admin"}
     /\ held # NoToken
     /\ auth.token = held.token)
    => /\ auth.exc = TwinOutcome.exc
       /\ auth.user = TwinOutcome.user
       /\ (auth.op = "get_current_admin" /\ auth.exc \in {"none", "403"}) =>
             (auth.exc = "none" <=> users[held.user_id].role = Str_admin)

\* A user promoted after the token was issued is admitted with the old token
C26_Witness ==
    /\ auth.op = "get_current_admin"
    /\ held # NoToken
    /\ auth.token = held.token
    /\ held.role = Str_student
    /\ users[held.user_id].role = Str_admin
    /\ auth.exc = "none"
    /\ auth.user = held.user_id

---------------------------------------------------------------------------
(* Claims about the effects of login *)

\* This step is a login that raised
LoginFailed == auth'.op = "login" /\ auth'.exc # "none"

\* This step is a login that returned a token
LoginSucceeded == auth'.op = "login" /\ auth'.exc = "none"

\* C27, as claimed: a login that fails leaves the store unchanged; a login
\* that succeeds writes the last_login_at of the authenticated user and
\* changes nothing else in the store.
C27_OnlyLastLoginWritten ==
    [][/\ LoginFailed => users' = users
       /\ LoginSucceeded =>
            /\ users'[auth'.user].last_login_at = now
            /\ users' = [users EXCEPT ![auth'.user].last_login_at = now]]_vars

\* C27, amended: a login that fails leaves the store unchanged; a login that
\* succeeds writes the last_login_at and, with it, the updated_at of the
\* authenticated user, and leaves that user's other columns (password,
\* role, status, is_deleted among them) and every other user unchanged.
C27_LastLoginAndUpdatedAtWritten ==
    [][/\ LoginFailed => users' = users
       /\ LoginSucceeded =>
            /\ users'[auth'.user].last_login_at = now
            /\ users'[auth'.user].updated_at = now
            /\ users' = [users EXCEPT ![auth'.user].last_login_at = now,
                                      ![auth'.user].updated_at = now]]_vars

\* The administrator logged in: the row now carries the time of the login
\* in last_login_at and in updated_at
C27_Witness ==
    /\ auth.op = "login" /\ auth.exc = "none"
    /\ auth.user = AdminId
    /\ users[AdminId].last_login_at = now
    /\ users[AdminId].updated_at = now
    /\ users[AdminId].updated_at # InitUsers[AdminId].updated_at

\* The store without the user of that name
WithoutUser(db, username) ==
    [id \in UserIds |-> IF db[id].username = username THEN NoRow ELSE db[id]]

\* C29: a failed login does not reveal why it failed: the error of
\* auth_service.login and the 401 answer built from it are the same for an
\* unknown username, a disabled or deleted user and a wrong password, so
\* the store with the user and the store without give the same answer.
C29_FailureReasonHidden ==
    (auth.op = "login" /\ auth.exc # "none") =>
        /\ auth.exc = "ValueError"
        /\ auth.http = "401"
        /\ auth.detail = BadCredentials
        /\ auth.token = <<>>
        /\ login(WithoutUser(users, auth.username), auth.username, auth.password)
              = Raise(auth.exc, auth.detail)

\* A login failed for its password alone: the user exists and is enabled
C29_Witness ==
    /\ auth.op = "login" /\ auth.exc = "ValueError"
    /\ get_user_by_username(users, auth.username) # 0
    /\ users[get_user_by_username(users, auth.username)].status
    /\ ~verify_password(auth.password,
                        users[get_user_by_username(users, auth.username)].password).value

---------------------------------------------------------------------------
(* Claims about the search client *)

\* C30: DuckDuckGoSearchClient.search returns at most max_results results
\* for every query, every max_results and every response shape, groups
\* with several nested Topics and max_results = 0 included.
C30_AtMostMaxResults ==
    \A w \in Workers :
        (calls[w].op = "search" /\ calls[w].pc = "done" /\ calls[w].exc = "none")
            => Len(calls[w].result) <= calls[w].n

=============================================================================
